---- MODULE Spec2Model ----
(***************************************************************************)
(* Model of rtm/vector4f.h: the 4-lane float vector operations and their   *)
(* SSE4/AVX, SSE2, NEON and portable code paths.                           *)
(*                                                                         *)
(* A lane is an IEEE-754 binary32 word [s, e, m]: sign bit, 8-bit biased   *)
(* exponent, 23-bit mantissa.  A vector4f / mask4i is a 4-tuple of words   *)
(* in lane order x, y, z, w (TLA+ indices 1..4).  Arithmetic is computed   *)
(* on the fields with round-to-nearest-even; bitwise intrinsics work on    *)
(* the fields bit by bit.                                                  *)
(***************************************************************************)
EXTENDS Integers, Sequences, FiniteSets, TLC

VARIABLES backend, op, variant, count, in0, in1, in2, scalar, sel, out, flag, mem0, mem, ptr, threads

vars == <<backend, op, variant, count, in0, in1, in2, scalar, sel, out, flag, mem0, mem, ptr, threads>>

(***************************************************************************)
(* binary32 words                                                          *)
(***************************************************************************)
Hidden == 8388608
Pow2(n) == 2 ^ n

W(s, e, m) == [s |-> s, e |-> e, m |-> m]

PosZero == W(0, 0, 0)
NegZero == W(1, 0, 0)
PosInf == W(0, 255, 0)
NegInf == W(1, 255, 0)
QNaN == W(0, 255, 4194304)
AllOnes == W(1, 255, 8388607)
One == W(0, 127, 0)
NegOne == W(1, 127, 0)
Half == W(0, 126, 0)

IsNaN(w) == w.e = 255 /\ w.m # 0
IsInf(w) == w.e = 255 /\ w.m = 0
IsZero(w) == w.e = 0 /\ w.m = 0
IsFinite(w) == w.e # 255

\* x86 arithmetic returns a NaN operand with its quiet bit set
Quiet(w) == W(w.s, w.e, IF w.m < 4194304 THEN w.m + 4194304 ELSE w.m)

\* Significand and exponent of a finite word: value = Sig * 2^(Exp - 150)
Sig(w) == IF w.e = 0 THEN w.m ELSE w.m + Hidden
Exp(w) == IF w.e = 0 THEN 1 ELSE w.e

RECURSIVE BitLen(_)
BitLen(n) == IF n = 0 THEN 0 ELSE 1 + BitLen(n \div 2)

Max(a, b) == IF a >= b THEN a ELSE b
Min(a, b) == IF a <= b THEN a ELSE b

\* Shift right by k keeping a sticky bit in the least significant position
ShiftRightJam(n, k) ==
    IF k <= 0 THEN n
    ELSE IF k >= 31 THEN (IF n # 0 THEN 1 ELSE 0)
    ELSE LET q == n \div Pow2(k)
             r == n % Pow2(k)
         IN IF r # 0 /\ q % 2 = 0 THEN q + 1 ELSE q

\* Round to nearest even and pack: the exact value is n * 2^x, 0 <= n < 2^30
RoundPack(s, n, x) ==
    IF n = 0 THEN W(s, 0, 0)
    ELSE
      LET len == BitLen(n)
          r == Max(len - 24, (0 - 149) - x)
      IN IF r >= 31 THEN W(s, 0, 0)
         ELSE
           LET q0 == IF r > 0 THEN n \div Pow2(r) ELSE n * Pow2(0 - r)
               rem == IF r > 0 THEN n % Pow2(r) ELSE 0
               half == IF r > 0 THEN Pow2(r - 1) ELSE 1
               up == r > 0 /\ (rem > half \/ (rem = half /\ q0 % 2 = 1))
               q1 == IF up THEN q0 + 1 ELSE q0
               q == IF q1 = 16777216 THEN Hidden ELSE q1
               xl == IF q1 = 16777216 THEN x + r + 1 ELSE x + r
           IN IF q < Hidden THEN W(s, 0, q)
              ELSE IF xl + 150 >= 255 THEN W(s, 255, 0)
              ELSE W(s, xl + 150, q - Hidden)

\* lhs + rhs of two finite words, with five guard bits below the significand
AddFinite(a, b) ==
    LET big == IF Exp(a) >= Exp(b) THEN a ELSE b
        small == IF Exp(a) >= Exp(b) THEN b ELSE a
        d == Exp(big) - Exp(small)
        nb == Sig(big) * 32
        ns == ShiftRightJam(Sig(small) * 32, d)
        x == Exp(big) - 155
    IN IF big.s = small.s THEN RoundPack(big.s, nb + ns, x)
       ELSE IF nb = ns THEN PosZero
       ELSE IF nb > ns THEN RoundPack(big.s, nb - ns, x)
       ELSE RoundPack(small.s, ns - nb, x)

\* The NaN an invalid operation produces: sign set on x86, clear on ARM
DefaultNaN == W(1, 255, 4194304)
ArmDefaultNaN == W(0, 255, 4194304)

\* IEEE addition; the first NaN operand is returned quieted, inf - inf gives
\* the default NaN dn of the instruction set
FAddN(a, b, dn) ==
    IF IsNaN(a) THEN Quiet(a)
    ELSE IF IsNaN(b) THEN Quiet(b)
    ELSE IF IsInf(a) THEN (IF IsInf(b) /\ a.s # b.s THEN dn ELSE a)
    ELSE IF IsInf(b) THEN b
    ELSE AddFinite(a, b)

FNeg(a) == W(1 - a.s, a.e, a.m)

FSubN(a, b, dn) ==
    IF IsNaN(a) THEN Quiet(a) ELSE IF IsNaN(b) THEN Quiet(b) ELSE FAddN(a, FNeg(b), dn)

\* addss / subss and the C++ + and - on an x86 build
FAdd(a, b) == FAddN(a, b, DefaultNaN)
FSub(a, b) == FSubN(a, b, DefaultNaN)

\* Shift a nonzero significand left until bit 23 is set
NormShift(w) == 24 - BitLen(Sig(w))

\* lhs * rhs of two finite nonzero words: 24x24 bit product by 12-bit halves
MulFinite(a, b) ==
    LET ka == NormShift(a)
        kb == NormShift(b)
        sa == Sig(a) * Pow2(ka)
        sb == Sig(b) * Pow2(kb)
        a1 == sa \div 4096
        a0 == sa % 4096
        b1 == sb \div 4096
        b0 == sb % 4096
        mid == a1 * b0 + a0 * b1
        t == a0 * b0 + (mid % 4096) * 4096
        lo == t % 16777216
        hi == a1 * b1 + (mid \div 4096) + (t \div 16777216)
        n0 == hi * 32 + (lo \div 524288)
        n == IF lo % 524288 # 0 /\ n0 % 2 = 0 THEN n0 + 1 ELSE n0
        x == (Exp(a) - ka - 150) + (Exp(b) - kb - 150) + 19
    IN RoundPack((a.s + b.s) % 2, n, x)

FMulN(a, b, dn) ==
    IF IsNaN(a) THEN Quiet(a)
    ELSE IF IsNaN(b) THEN Quiet(b)
    ELSE IF IsInf(a) \/ IsInf(b)
         THEN (IF IsZero(a) \/ IsZero(b) THEN dn ELSE W((a.s + b.s) % 2, 255, 0))
    ELSE IF IsZero(a) \/ IsZero(b) THEN W((a.s + b.s) % 2, 0, 0)
    ELSE MulFinite(a, b)

FMul(a, b) == FMulN(a, b, DefaultNaN)

\* Long division in base 64: k more digits of the quotient of r / d, r < d < 2^24
RECURSIVE DivDigits(_, _, _, _)
DivDigits(q, r, d, k) ==
    IF k = 0 THEN <<q, r>>
    ELSE DivDigits(q * 64 + ((r * 64) \div d), (r * 64) % d, d, k - 1)

\* lhs / rhs of two finite nonzero words: 26 quotient bits and a sticky bit
DivFinite(a, b) ==
    LET ka == NormShift(a)
        kb == NormShift(b)
        sa == Sig(a) * Pow2(ka)
        sb == Sig(b) * Pow2(kb)
        d4 == DivDigits(sa \div sb, sa % sb, sb, 4)
        q == d4[1] * 4 + ((d4[2] * 4) \div sb)
        r == (d4[2] * 4) % sb
        n == q * 2 + (IF r # 0 THEN 1 ELSE 0)
        x == (Exp(a) - ka) - (Exp(b) - kb) - 27
    IN RoundPack((a.s + b.s) % 2, n, x)

FDivN(a, b, dn) ==
    IF IsNaN(a) THEN Quiet(a)
    ELSE IF IsNaN(b) THEN Quiet(b)
    ELSE IF IsInf(a) THEN (IF IsInf(b) THEN dn ELSE W((a.s + b.s) % 2, 255, 0))
    ELSE IF IsInf(b) THEN W((a.s + b.s) % 2, 0, 0)
    ELSE IF IsZero(b) THEN (IF IsZero(a) THEN dn ELSE W((a.s + b.s) % 2, 255, 0))
    ELSE IF IsZero(a) THEN W((a.s + b.s) % 2, 0, 0)
    ELSE DivFinite(a, b)

FDiv(a, b) == FDivN(a, b, DefaultNaN)

\* Digit-by-digit square root: pairs of bits of n from pair k down, then
\* zero pairs down to pair -14; returns the root and the remainder
RECURSIVE SqrtPairs(_, _, _, _)
SqrtPairs(n, k, r, root) ==
    IF k < 0 - 14 THEN <<root, r>>
    ELSE LET pair == IF k >= 0 THEN (n \div Pow2(2 * k)) % 4 ELSE 0
             r1 == r * 4 + pair
             t == root * 4 + 1
         IN IF r1 >= t THEN SqrtPairs(n, k - 1, r1 - t, root * 2 + 1)
            ELSE SqrtPairs(n, k - 1, r1, root * 2)

\* Square root of a finite positive word
SqrtFinite(a) ==
    LET ka == NormShift(a)
        x0 == Exp(a) - ka - 150
        odd == x0 % 2 = 1
        sa == IF odd THEN Sig(a) * Pow2(ka) * 2 ELSE Sig(a) * Pow2(ka)
        x == IF odd THEN x0 - 1 ELSE x0
        rr == SqrtPairs(sa, 12, 0, 0)
        n == rr[1] * 2 + (IF rr[2] # 0 THEN 1 ELSE 0)
    IN RoundPack(0, n, ((x - 28) \div 2) - 1)

FSqrtN(a, dn) ==
    IF IsNaN(a) THEN Quiet(a)
    ELSE IF IsZero(a) THEN a
    ELSE IF a.s = 1 THEN dn
    ELSE IF IsInf(a) THEN a
    ELSE SqrtFinite(a)

FSqrt(a) == FSqrtN(a, DefaultNaN)

(***************************************************************************)
(* Fused multiply-add (AArch64 FMLA / FMLS): a * b + c rounded once.       *)
(* The exact product and sum are kept as little-endian base-4096 digits.   *)
(***************************************************************************)
BigZero == <<0, 0, 0, 0, 0, 0, 0, 0, 0, 0, 0, 0>>

\* The digits of d * 2^r (r < 12), from digit i on, with carry c
RECURSIVE BigScale(_, _, _, _)
BigScale(d, r, i, c) ==
    IF i > Len(d) THEN <<>>
    ELSE LET t == d[i] * Pow2(r) + c
         IN <<t % 4096>> \o BigScale(d, r, i + 1, t \div 4096)

\* d * 2^k, kept to twelve digits
BigShl(d, k) == SubSeq(SubSeq(BigZero, 1, k \div 12) \o BigScale(d, k % 12, 1, 0), 1, 12)

\* A significand below 2^24 as twelve digits
BigFrom(n) == <<n % 4096, n \div 4096>> \o SubSeq(BigZero, 1, 10)

RECURSIVE BigAdd(_, _, _, _)
BigAdd(a, b, i, c) ==
    IF i > 12 THEN <<>>
    ELSE LET t == a[i] + b[i] + c
         IN <<t % 4096>> \o BigAdd(a, b, i + 1, t \div 4096)

\* a - b for a >= b
RECURSIVE BigSub(_, _, _, _)
BigSub(a, b, i, c) ==
    IF i > 12 THEN <<>>
    ELSE LET t == a[i] - b[i] - c
         IN IF t < 0 THEN <<t + 4096>> \o BigSub(a, b, i + 1, 1)
            ELSE <<t>> \o BigSub(a, b, i + 1, 0)

RECURSIVE BigLess(_, _, _)
BigLess(a, b, i) ==
    IF i = 0 THEN FALSE
    ELSE IF a[i] # b[i] THEN a[i] < b[i]
    ELSE BigLess(a, b, i - 1)

\* Index of the most significant nonzero digit at or below i (0 if none)
RECURSIVE BigTop(_, _)
BigTop(d, i) == IF i = 0 THEN 0 ELSE IF d[i] # 0 THEN i ELSE BigTop(d, i - 1)

BigDigit(d, i) == IF i >= 1 THEN d[i] ELSE 0

\* The exact 24x24 bit product of two significands
BigProduct(sa, sb) ==
    LET a1 == sa \div 4096
        a0 == sa % 4096
        b1 == sb \div 4096
        b0 == sb % 4096
    IN BigScale(<<a0 * b0, a0 * b1 + a1 * b0, a1 * b1, 0>>, 0, 1, 0) \o SubSeq(BigZero, 1, 8)

\* Round the exact value d * 2^x to binary32 with sign s: the leading 29
\* bits of d, the rest folded into a sticky bit, then RoundPack
BigRoundPack(s, d, x) ==
    LET t == BigTop(d, 12)
        bl == BitLen(BigDigit(d, t))
        len == 12 * (t - 1) + bl
    IN IF t = 0 THEN W(s, 0, 0)
       ELSE IF len <= 29 THEN RoundPack(s, d[1] + d[2] * 4096 + d[3] * 16777216, x)
       ELSE
         LET hi == d[t] * Pow2(29 - bl) + d[t - 1] * Pow2(17 - bl)
             mid == IF bl <= 5 THEN d[t - 2] * Pow2(5 - bl) ELSE d[t - 2] \div Pow2(bl - 5)
             lo == IF bl < 5 THEN BigDigit(d, t - 3) \div Pow2(7 + bl) ELSE 0
             cut == IF bl < 5 THEN t - 3 ELSE t - 2
             cutbits == IF bl < 5 THEN 7 + bl ELSE bl - 5
             sticky == BigDigit(d, cut) % Pow2(cutbits) # 0 \/ BigTop(d, cut - 1) # 0
             n0 == hi + mid + lo
             n == IF sticky /\ n0 % 2 = 0 THEN n0 + 1 ELSE n0
         IN RoundPack(s, n, x + (len - 29))

\* a * b + c for finite nonzero a, b and finite nonzero c.  An operand more
\* than 60 bits below the other only decides which way a tie falls.
FmaFinite(a, b, c) ==
    LET sp == (a.s + b.s) % 2
        xp == (Exp(a) - 150) + (Exp(b) - 150)
        xc == Exp(c) - 150
        P == BigProduct(Sig(a), Sig(b))
        C == BigFrom(Sig(c))
        One12 == <<1>> \o SubSeq(BigZero, 1, 11)
        far == (xc - xp > 60) \/ (xp - xc > 60)
        x == IF xc >= xp THEN (IF far THEN xc - 60 ELSE xp)
             ELSE (IF far THEN xp - 60 ELSE xc)
        PP == IF xc >= xp THEN (IF far THEN One12 ELSE P)
              ELSE BigShl(P, IF far THEN 60 ELSE xp - xc)
        CC == IF xc >= xp THEN BigShl(C, IF far THEN 60 ELSE xc - xp)
              ELSE (IF far THEN One12 ELSE C)
    IN IF sp = c.s THEN BigRoundPack(sp, BigAdd(PP, CC, 1, 0), x)
       ELSE IF PP = CC THEN PosZero
       ELSE IF BigLess(CC, PP, 12) THEN BigRoundPack(sp, BigSub(PP, CC, 1, 0), x)
       ELSE BigRoundPack(c.s, BigSub(CC, PP, 1, 0), x)

IsSNaN(w) == IsNaN(w) /\ w.m < 4194304

\* FPMulAdd(addend c, a, b) of the ARM architecture: NaN operands in the
\* order addend, op1, op2 (signalling first), inf * 0 and inf - inf are
\* invalid, everything else is a * b + c rounded once
FFma(a, b, c) ==
    LET sp == (a.s + b.s) % 2
        infzero == (IsInf(a) /\ IsZero(b)) \/ (IsZero(a) /\ IsInf(b))
    IN IF IsSNaN(c) THEN Quiet(c)
       ELSE IF IsSNaN(a) THEN Quiet(a)
       ELSE IF IsSNaN(b) THEN Quiet(b)
       ELSE IF IsNaN(c) THEN (IF infzero THEN ArmDefaultNaN ELSE c)
       ELSE IF IsNaN(a) THEN a
       ELSE IF IsNaN(b) THEN b
       ELSE IF infzero THEN ArmDefaultNaN
       ELSE IF IsInf(a) \/ IsInf(b)
            THEN (IF IsInf(c) /\ c.s # sp THEN ArmDefaultNaN ELSE W(sp, 255, 0))
       ELSE IF IsInf(c) THEN c
       ELSE IF IsZero(a) \/ IsZero(b)
            THEN (IF IsZero(c) THEN (IF c.s = sp THEN c ELSE PosZero) ELSE c)
       ELSE IF IsZero(c) THEN BigRoundPack(sp, BigProduct(Sig(a), Sig(b)), (Exp(a) - 150) + (Exp(b) - 150))
       ELSE FmaFinite(a, b, c)

\* Ordered key of a non-NaN word: a < b as floats iff Key(a) < Key(b)
Key(w) == IF w.s = 0 THEN w.e * Hidden + w.m ELSE 0 - (w.e * Hidden + w.m)

FEq(a, b) == ~IsNaN(a) /\ ~IsNaN(b) /\ Key(a) = Key(b)
FLt(a, b) == ~IsNaN(a) /\ ~IsNaN(b) /\ Key(a) < Key(b)
FLe(a, b) == ~IsNaN(a) /\ ~IsNaN(b) /\ Key(a) <= Key(b)
FGt(a, b) == FLt(b, a)
FGe(a, b) == FLe(b, a)

(***************************************************************************)
(* Bitwise views of a word                                                 *)
(***************************************************************************)
RECURSIVE BitAnd(_, _, _)
BitAnd(a, b, n) ==
    IF n = 0 THEN 0
    ELSE (a % 2) * (b % 2) + 2 * BitAnd(a \div 2, b \div 2, n - 1)

RECURSIVE BitOr(_, _, _)
BitOr(a, b, n) ==
    IF n = 0 THEN 0
    ELSE (IF a % 2 = 1 \/ b % 2 = 1 THEN 1 ELSE 0) + 2 * BitOr(a \div 2, b \div 2, n - 1)

RECURSIVE BitXor(_, _, _)
BitXor(a, b, n) ==
    IF n = 0 THEN 0
    ELSE ((a + b) % 2) + 2 * BitXor(a \div 2, b \div 2, n - 1)

WAnd(a, b) == W(BitAnd(a.s, b.s, 1), BitAnd(a.e, b.e, 8), BitAnd(a.m, b.m, 23))
WOr(a, b) == W(BitOr(a.s, b.s, 1), BitOr(a.e, b.e, 8), BitOr(a.m, b.m, 23))
WXor(a, b) == W(BitXor(a.s, b.s, 1), BitXor(a.e, b.e, 8), BitXor(a.m, b.m, 23))
WNot(a) == W(1 - a.s, 255 - a.e, 8388607 - a.m)

\* The four bytes of a word, least significant first (little endian)
Bytes(w) == << w.m % 256,
               (w.m \div 256) % 256,
               (w.m \div 65536) + 128 * (w.e % 2),
               (w.e \div 2) + 128 * w.s >>

FromBytes(b) == W(b[4] \div 128,
                  (b[4] % 128) * 2 + (b[3] \div 128),
                  (b[3] % 128) * 65536 + b[2] * 256 + b[1])

\* rtm_impl::get_mask_value: ~0 for true, 0 for false
get_mask_value(is_true) == IF is_true THEN AllOnes ELSE PosZero

IsMaskLane(w) == w = AllOnes \/ w = PosZero

(***************************************************************************)
(* Vectors, backends and the intrinsics the header uses                    *)
(***************************************************************************)
Lanes == 1..4
\* The four-lane vector whose lane i is F(i)
Vec4(F(_)) == <<F(1), F(2), F(3), F(4)>>
\* F(v) with v evaluated to a value before F is applied: it fixes the order
\* of evaluation of a long chain of intermediate values, not its result
Evaluate(v, F(_)) == CHOOSE r \in {F(u) : u \in {v}} : TRUE
\* The element of a set of one element: The({F(u) : u \in {v}}) is F(v)
\* with v evaluated to a value before F is applied
The(S) == CHOOSE r \in S : TRUE

ZeroVec == <<PosZero, PosZero, PosZero, PosZero>>

\* Build targets: each enables the feature macros tested by the #if chains
Backends == {"avx", "sse4", "sse2", "neon64", "neon", "scalar"}
RTM_AVX_INTRINSICS(b) == b = "avx"
RTM_SSE4_INTRINSICS(b) == b \in {"avx", "sse4"}
RTM_SSE2_INTRINSICS(b) == b \in {"avx", "sse4", "sse2"}
RTM_NEON64_INTRINSICS(b) == b = "neon64"
RTM_NEON_INTRINSICS(b) == b \in {"neon64", "neon"}

vector_set(x, y, z, w) == <<x, y, z, w>>
vector_set1(x) == <<x, x, x, x>>
vector_zero == ZeroVec

MM_SHUFFLE(z, y, x, w) == z * 64 + y * 16 + x * 4 + w

mm_shuffle_ps(a, b, imm) ==
    << a[(imm % 4) + 1], a[((imm \div 4) % 4) + 1],
       b[((imm \div 16) % 4) + 1], b[((imm \div 64) % 4) + 1] >>

mm_set_ss(f) == <<f, PosZero, PosZero, PosZero>>
mm_set_ps1(f) == <<f, f, f, f>>
mm_setzero_ps == ZeroVec
mm_cvtss_f32(a) == a[1]

\* Mutation of _mm_move_ss: the upper lane is taken from b as well
mm_move_ss_upper_from_b(a, b) == <<b[1], a[2], a[3], b[4]>>

mm_move_ss(a, b) == <<b[1], a[2], a[3], a[4]>>

\* _mm_insert_ps: imm[7:6] source lane of b, imm[5:4] destination, imm[3:0] zero mask
mm_insert_ps(a, b, imm) ==
    LET src == ((imm \div 64) % 4) + 1
        dst == ((imm \div 16) % 4) + 1
        zm == imm % 16
    IN Vec4(LAMBDA i: IF (zm \div Pow2(i - 1)) % 2 = 1 THEN PosZero
          ELSE IF i = dst THEN b[src] ELSE a[i])

mm_unpacklo_ps(a, b) == <<a[1], b[1], a[2], b[2]>>
\* Mutation of _mm_unpackhi_ps: the high halves are concatenated, not interleaved
mm_unpackhi_ps_concat(a, b) == <<a[3], a[4], b[3], b[4]>>

mm_unpackhi_ps(a, b) == <<a[3], b[3], a[4], b[4]>>

mm_and_ps(a, b) == Vec4(LAMBDA i: WAnd(a[i], b[i]))
mm_or_ps(a, b) == Vec4(LAMBDA i: WOr(a[i], b[i]))
mm_xor_ps(a, b) == Vec4(LAMBDA i: WXor(a[i], b[i]))
\* Mutation of _mm_andnot_ps: the second operand is the one complemented
mm_andnot_ps_second(a, b) == Vec4(LAMBDA i: WAnd(a[i], WNot(b[i])))

\* _mm_andnot_ps: (~a) & b
mm_andnot_ps(a, b) == Vec4(LAMBDA i: WAnd(WNot(a[i]), b[i]))

mm_blendv_ps(a, b, mask) == Vec4(LAMBDA i: IF mask[i].s = 1 THEN b[i] ELSE a[i])

vsetq_lane_f32(value, vec, lane) == Vec4(LAMBDA i: IF i = lane + 1 THEN value ELSE vec[i])
vgetq_lane_f32(vec, lane) == vec[lane + 1]
vbslq_f32(mask, a, b) == Vec4(LAMBDA i: WOr(WAnd(mask[i], a[i]), WAnd(WNot(mask[i]), b[i])))

(***************************************************************************)
(* Component getters (operator float of the wrapper structs)               *)
(***************************************************************************)
vector_get_x(b, input) ==
    IF RTM_SSE2_INTRINSICS(b) THEN mm_cvtss_f32(input)
    ELSE IF RTM_NEON_INTRINSICS(b) THEN vgetq_lane_f32(input, 0)
    ELSE input[1]

vector_get_y(b, input) ==
    IF RTM_SSE2_INTRINSICS(b) THEN mm_cvtss_f32(mm_shuffle_ps(input, input, MM_SHUFFLE(1, 1, 1, 1)))
    ELSE IF RTM_NEON_INTRINSICS(b) THEN vgetq_lane_f32(input, 1)
    ELSE input[2]

vector_get_z(b, input) ==
    IF RTM_SSE2_INTRINSICS(b) THEN mm_cvtss_f32(mm_shuffle_ps(input, input, MM_SHUFFLE(2, 2, 2, 2)))
    ELSE IF RTM_NEON_INTRINSICS(b) THEN vgetq_lane_f32(input, 2)
    ELSE input[3]

vector_get_w(b, input) ==
    IF RTM_SSE2_INTRINSICS(b) THEN mm_cvtss_f32(mm_shuffle_ps(input, input, MM_SHUFFLE(3, 3, 3, 3)))
    ELSE IF RTM_NEON_INTRINSICS(b) THEN vgetq_lane_f32(input, 3)
    ELSE input[4]

(***************************************************************************)
(* Setters.  The float overload takes the lane value; the scalarf overload *)
(* (SSE2 builds only) takes a register whose lane 0 holds the value.       *)
(***************************************************************************)
vector_set_x(b, input, lane_value) ==
    IF RTM_SSE2_INTRINSICS(b) THEN mm_move_ss(input, mm_set_ss(lane_value))
    ELSE IF RTM_NEON_INTRINSICS(b) THEN vsetq_lane_f32(lane_value, input, 0)
    ELSE <<lane_value, input[2], input[3], input[4]>>

vector_set_x_scalarf(b, input, lane_value) == mm_move_ss(input, lane_value)

vector_set_y(b, input, lane_value) ==
    IF RTM_SSE4_INTRINSICS(b) THEN mm_insert_ps(input, mm_set_ss(lane_value), 16)
    ELSE IF RTM_SSE2_INTRINSICS(b) THEN
        LET yxzw == mm_shuffle_ps(input, input, MM_SHUFFLE(3, 2, 0, 1))
            vxzw == mm_move_ss(yxzw, mm_set_ss(lane_value))
        IN mm_shuffle_ps(vxzw, vxzw, MM_SHUFFLE(3, 2, 0, 1))
    ELSE IF RTM_NEON_INTRINSICS(b) THEN vsetq_lane_f32(lane_value, input, 1)
    ELSE <<input[1], lane_value, input[3], input[4]>>

vector_set_y_scalarf(b, input, lane_value) ==
    IF RTM_SSE4_INTRINSICS(b) THEN mm_insert_ps(input, lane_value, 16)
    ELSE
        LET yxzw == mm_shuffle_ps(input, input, MM_SHUFFLE(3, 2, 0, 1))
            vxzw == mm_move_ss(yxzw, lane_value)
        IN mm_shuffle_ps(vxzw, vxzw, MM_SHUFFLE(3, 2, 0, 1))

\* Mutation of vector_set_z: the SSE2 path does not shuffle the lanes back
vector_set_z_unshuffled(b, input, lane_value) ==
    IF RTM_SSE4_INTRINSICS(b) THEN mm_insert_ps(input, mm_set_ss(lane_value), 32)
    ELSE IF RTM_SSE2_INTRINSICS(b) THEN
        mm_move_ss(mm_shuffle_ps(input, input, MM_SHUFFLE(3, 0, 1, 2)), mm_set_ss(lane_value))
    ELSE IF RTM_NEON_INTRINSICS(b) THEN vsetq_lane_f32(lane_value, input, 2)
    ELSE <<input[1], input[2], lane_value, input[4]>>

vector_set_z(b, input, lane_value) ==
    IF RTM_SSE4_INTRINSICS(b) THEN mm_insert_ps(input, mm_set_ss(lane_value), 32)
    ELSE IF RTM_SSE2_INTRINSICS(b) THEN
        LET zyxw == mm_shuffle_ps(input, input, MM_SHUFFLE(3, 0, 1, 2))
            vyxw == mm_move_ss(zyxw, mm_set_ss(lane_value))
        IN mm_shuffle_ps(vyxw, vyxw, MM_SHUFFLE(3, 0, 1, 2))
    ELSE IF RTM_NEON_INTRINSICS(b) THEN vsetq_lane_f32(lane_value, input, 2)
    ELSE <<input[1], input[2], lane_value, input[4]>>

vector_set_z_scalarf(b, input, lane_value) ==
    IF RTM_SSE4_INTRINSICS(b) THEN mm_insert_ps(input, lane_value, 32)
    ELSE
        LET yxzw == mm_shuffle_ps(input, input, MM_SHUFFLE(3, 0, 1, 2))
            vxzw == mm_move_ss(yxzw, lane_value)
        IN mm_shuffle_ps(vxzw, vxzw, MM_SHUFFLE(3, 0, 1, 2))

vector_set_w(b, input, lane_value) ==
    IF RTM_SSE4_INTRINSICS(b) THEN mm_insert_ps(input, mm_set_ss(lane_value), 48)
    ELSE IF RTM_SSE2_INTRINSICS(b) THEN
        LET wyzx == mm_shuffle_ps(input, input, MM_SHUFFLE(0, 2, 1, 3))
            vyzx == mm_move_ss(wyzx, mm_set_ss(lane_value))
        IN mm_shuffle_ps(vyzx, vyzx, MM_SHUFFLE(0, 2, 1, 3))
    ELSE IF RTM_NEON_INTRINSICS(b) THEN vsetq_lane_f32(lane_value, input, 3)
    ELSE <<input[1], input[2], input[3], lane_value>>

vector_set_w_scalarf(b, input, lane_value) ==
    IF RTM_SSE4_INTRINSICS(b) THEN mm_insert_ps(input, lane_value, 48)
    ELSE
        LET yxzw == mm_shuffle_ps(input, input, MM_SHUFFLE(0, 2, 1, 3))
            vxzw == mm_move_ss(yxzw, lane_value)
        IN mm_shuffle_ps(vxzw, vxzw, MM_SHUFFLE(0, 2, 1, 3))

(***************************************************************************)
(* Integer <-> float conversion                                            *)
(***************************************************************************)
INT_MIN == (0 - 2147483647) - 1

Abs(i) == IF i < 0 THEN 0 - i ELSE i

\* _mm_cvtepi32_ps of one lane: int32 to float, round to nearest even
IntToFloat(i) ==
    IF i = 0 THEN PosZero
    ELSE IF i = INT_MIN THEN W(1, 158, 0)
    ELSE LET sgn == IF i < 0 THEN 1 ELSE 0
             n == Abs(i)
         IN IF n < 1073741824 THEN RoundPack(sgn, n, 0)
            ELSE RoundPack(sgn, ShiftRightJam(n, 2), 2)

(***************************************************************************)
(* State: the build target, the last call (op, overload, operands) and     *)
(* its results.  out is the vector register holding the last vector        *)
(* result, flag the last boolean result, mem the destination buffer.       *)
(***************************************************************************)
NoSel == <<0, 0, 0, 0>>

\* Sample lane payloads: the small integers 0..MaxLaneInt as floats, plus
\* words whose bit pattern matters (negative zero, a NaN)
MaxLaneInt == 1
SmallFloats == {IntToFloat(i) : i \in 0..MaxLaneInt}
SetVals == SmallFloats \cup {NegZero}

Call(o, v, a, b, c, s, sl, r, f) ==
    /\ op' = o
    /\ variant' = v
    /\ count' = 4
    /\ in0' = a
    /\ in1' = b
    /\ in2' = c
    /\ scalar' = s
    /\ sel' = sl
    /\ out' = r
    /\ flag' = f
    /\ UNCHANGED <<backend, mem0, mem, ptr, threads>>

InitRegs ==
    /\ op = "init"
    /\ variant = "none"
    /\ count = 4
    /\ in0 = ZeroVec
    /\ in1 = ZeroVec
    /\ in2 = ZeroVec
    /\ scalar = PosZero
    /\ sel = NoSel
    /\ flag = FALSE
    /\ mem0 = <<>>
    /\ mem = <<>>
    /\ ptr = 0
    /\ threads = <<>>

(***************************************************************************)
(* Component setters applied to the current vector register                *)
(***************************************************************************)
\* A call on the first n lanes only (the 2- and 3-lane variants)
CallN(o, v, n, a, b, r, f) ==
    /\ op' = o
    /\ variant' = v
    /\ count' = n
    /\ in0' = a
    /\ in1' = b
    /\ in2' = ZeroVec
    /\ scalar' = PosZero
    /\ sel' = NoSel
    /\ out' = r
    /\ flag' = f
    /\ UNCHANGED <<backend, mem0, mem, ptr, threads>>

\* A scalarf register: lane 0 holds the value, the other lanes are whatever
\* the producing instruction left there
ScalarfRegs(f) == {<<f, g, g, g>> : g \in {AllOnes}}

SetX ==
    \E f \in SetVals :
      \/ Call("vector_set_x", "float", out, ZeroVec, ZeroVec, f, NoSel,
              vector_set_x(backend, out, f), FALSE)
      \/ /\ RTM_SSE2_INTRINSICS(backend)
         /\ \E lane_value \in ScalarfRegs(f) :
              Call("vector_set_x", "scalarf", out, lane_value, ZeroVec, f, NoSel,
                   vector_set_x_scalarf(backend, out, lane_value), FALSE)

SetY ==
    \E f \in SetVals :
      \/ Call("vector_set_y", "float", out, ZeroVec, ZeroVec, f, NoSel,
              vector_set_y(backend, out, f), FALSE)
      \/ /\ RTM_SSE2_INTRINSICS(backend)
         /\ \E lane_value \in ScalarfRegs(f) :
              Call("vector_set_y", "scalarf", out, lane_value, ZeroVec, f, NoSel,
                   vector_set_y_scalarf(backend, out, lane_value), FALSE)

SetZ ==
    \E f \in SetVals :
      \/ Call("vector_set_z", "float", out, ZeroVec, ZeroVec, f, NoSel,
              vector_set_z(backend, out, f), FALSE)
      \/ /\ RTM_SSE2_INTRINSICS(backend)
         /\ \E lane_value \in ScalarfRegs(f) :
              Call("vector_set_z", "scalarf", out, lane_value, ZeroVec, f, NoSel,
                   vector_set_z_scalarf(backend, out, lane_value), FALSE)

SetW ==
    \E f \in SetVals :
      \/ Call("vector_set_w", "float", out, ZeroVec, ZeroVec, f, NoSel,
              vector_set_w(backend, out, f), FALSE)
      \/ /\ RTM_SSE2_INTRINSICS(backend)
         /\ \E lane_value \in ScalarfRegs(f) :
              Call("vector_set_w", "scalarf", out, lane_value, ZeroVec, f, NoSel,
                   vector_set_w_scalarf(backend, out, lane_value), FALSE)

InitSet ==
    /\ backend \in Backends
    /\ InitRegs
    /\ out = <<QNaN, NegZero, One, PosInf>>

NextSet == SetX \/ SetY \/ SetZ \/ SetW

SpecSet == InitSet /\ [][NextSet]_vars

SetOps == {"vector_set_x", "vector_set_y", "vector_set_z", "vector_set_w"}
SetLaneOf(o) == CASE o = "vector_set_x" -> 1 [] o = "vector_set_y" -> 2
                  [] o = "vector_set_z" -> 3 [] o = "vector_set_w" -> 4

GetLane(b, v, i) == CASE i = 1 -> vector_get_x(b, v) [] i = 2 -> vector_get_y(b, v)
                      [] i = 3 -> vector_get_z(b, v) [] i = 4 -> vector_get_w(b, v)

\* C1: after vector_set_L(v, f), on every backend and for both overloads,
\* lane L read through vector_get_L is f and the other three lanes are
\* those of v, bit for bit.
C1_SetLaneFrame ==
    op \in SetOps =>
      \A i \in Lanes :
        GetLane(backend, out, i) = IF i = SetLaneOf(op) THEN scalar ELSE in0[i]

\* A set on the SSE2 shuffle path through the scalarf overload that changes
\* lane z of a vector with distinct lanes
C1_Witness ==
    /\ op = "vector_set_z"
    /\ variant = "scalarf"
    /\ backend = "sse2"
    /\ in0 = <<QNaN, NegZero, One, PosInf>>
    /\ scalar = NegZero
    /\ in1 = <<NegZero, AllOnes, AllOnes, AllOnes>>
    /\ out = <<QNaN, NegZero, NegZero, PosInf>>

(***************************************************************************)
(* vector_mix: component selectors x,y,z,w (first input) and a,b,c,d       *)
(* (second input)                                                          *)
(***************************************************************************)
Mix4 == 0..7
mix4_x == 0
mix4_y == 1
mix4_z == 2
mix4_w == 3
mix4_a == 4
mix4_b == 5
mix4_c == 6
mix4_d == 7

is_mix_xyzw(arg) == arg <= mix4_w
is_mix_abcd(arg) == arg >= mix4_a

\* vector_get_component<component>(input) converted to float
vector_get_component_static(b, component, input) ==
    LET xyzw == component % 4
    IN IF xyzw = mix4_x THEN vector_get_x(b, input)
       ELSE IF xyzw = mix4_y THEN vector_get_y(b, input)
       ELSE IF xyzw = mix4_z THEN vector_get_z(b, input)
       ELSE vector_get_w(b, input)

\* The slow code path of vector_mix: one extraction per output lane
vector_mix_slow(b, comp0, comp1, comp2, comp3, input0, input1) ==
    LET x == IF is_mix_xyzw(comp0) THEN vector_get_component_static(b, comp0, input0)
             ELSE vector_get_component_static(b, comp0, input1)
        y == IF is_mix_xyzw(comp1) THEN vector_get_component_static(b, comp1, input0)
             ELSE vector_get_component_static(b, comp1, input1)
        z == IF is_mix_xyzw(comp2) THEN vector_get_component_static(b, comp2, input0)
             ELSE vector_get_component_static(b, comp2, input1)
        w == IF is_mix_xyzw(comp3) THEN vector_get_component_static(b, comp3, input0)
             ELSE vector_get_component_static(b, comp3, input1)
    IN vector_set(x, y, z, w)

vector_mix(b, comp0, comp1, comp2, comp3, input0, input1) ==
    LET imm == MM_SHUFFLE(comp3 % 4, comp2 % 4, comp1 % 4, comp0 % 4)
    IN IF ~RTM_SSE2_INTRINSICS(b)
       THEN vector_mix_slow(b, comp0, comp1, comp2, comp3, input0, input1)
       ELSE IF is_mix_xyzw(comp0) /\ is_mix_xyzw(comp1) /\ is_mix_xyzw(comp2) /\ is_mix_xyzw(comp3)
       THEN mm_shuffle_ps(input0, input0, imm)
       ELSE IF is_mix_abcd(comp0) /\ is_mix_abcd(comp1) /\ is_mix_abcd(comp2) /\ is_mix_abcd(comp3)
       THEN mm_shuffle_ps(input1, input1, imm)
       ELSE IF is_mix_xyzw(comp0) /\ is_mix_xyzw(comp1) /\ is_mix_abcd(comp2) /\ is_mix_abcd(comp3)
       THEN mm_shuffle_ps(input0, input1, imm)
       ELSE IF is_mix_abcd(comp0) /\ is_mix_abcd(comp1) /\ is_mix_xyzw(comp2) /\ is_mix_xyzw(comp3)
       THEN mm_shuffle_ps(input1, input0, imm)
       ELSE IF comp0 = mix4_x /\ comp1 = mix4_a /\ comp2 = mix4_y /\ comp3 = mix4_b
       THEN mm_unpacklo_ps(input0, input1)
       ELSE IF comp0 = mix4_a /\ comp1 = mix4_x /\ comp2 = mix4_b /\ comp3 = mix4_y
       THEN mm_unpacklo_ps(input1, input0)
       ELSE IF comp0 = mix4_z /\ comp1 = mix4_c /\ comp2 = mix4_w /\ comp3 = mix4_d
       THEN mm_unpackhi_ps(input0, input1)
       ELSE IF comp0 = mix4_c /\ comp1 = mix4_z /\ comp2 = mix4_d /\ comp3 = mix4_w
       THEN mm_unpackhi_ps(input1, input0)
       ELSE vector_mix_slow(b, comp0, comp1, comp2, comp3, input0, input1)

vector_dup_x(b, input) == vector_mix(b, mix4_x, mix4_x, mix4_x, mix4_x, input, input)
vector_dup_y(b, input) == vector_mix(b, mix4_y, mix4_y, mix4_y, mix4_y, input, input)
vector_dup_z(b, input) == vector_mix(b, mix4_z, mix4_z, mix4_z, mix4_z, input, input)
vector_dup_w(b, input) == vector_mix(b, mix4_w, mix4_w, mix4_w, mix4_w, input, input)

\* Input pairs with eight distinct lanes: (k+1 .. k+4) and (k+5 .. k+8)
MixInputs == { << <<IntToFloat(k + 1), IntToFloat(k + 2), IntToFloat(k + 3), IntToFloat(k + 4)>>,
                  <<IntToFloat(k + 5), IntToFloat(k + 6), IntToFloat(k + 7), IntToFloat(k + 8)>> >>
               : k \in 0..MaxLaneInt }

Mix ==
    /\ op = "init"
    /\ \E c0 \in Mix4, c1 \in Mix4, c2 \in Mix4, c3 \in Mix4, p \in MixInputs :
         Call("vector_mix", "template", p[1], p[2], ZeroVec, PosZero, <<c0, c1, c2, c3>>,
              vector_mix(backend, c0, c1, c2, c3, p[1], p[2]), FALSE)

\* The dup helpers replicate one lane of the last result
Dup ==
    /\ op \in {"vector_mix"}
    /\ \/ Call("vector_dup_x", "none", out, ZeroVec, ZeroVec, PosZero, NoSel, vector_dup_x(backend, out), FALSE)
       \/ Call("vector_dup_y", "none", out, ZeroVec, ZeroVec, PosZero, NoSel, vector_dup_y(backend, out), FALSE)
       \/ Call("vector_dup_z", "none", out, ZeroVec, ZeroVec, PosZero, NoSel, vector_dup_z(backend, out), FALSE)
       \/ Call("vector_dup_w", "none", out, ZeroVec, ZeroVec, PosZero, NoSel, vector_dup_w(backend, out), FALSE)

InitMix ==
    /\ backend \in Backends
    /\ InitRegs
    /\ out = ZeroVec

NextMix == Mix \/ Dup

SpecMix == InitMix /\ [][NextMix]_vars

\* C2: for every selector tuple, output lane i of vector_mix is lane
\* (ci mod 4) of input0 when ci is x..w and of input1 when ci is a..d, and the
\* SSE2 fast paths return what the per-lane extraction path returns.
C2_MixSelectsLanes ==
    op = "vector_mix" =>
      /\ \A i \in Lanes :
           out[i] = IF sel[i] \in {mix4_x, mix4_y, mix4_z, mix4_w}
                    THEN in0[(sel[i] % 4) + 1]
                    ELSE in1[(sel[i] % 4) + 1]
      /\ out = vector_mix_slow(backend, sel[1], sel[2], sel[3], sel[4], in0, in1)

\* The interleave-high fast path (c, z, d, w) on an SSE2 build
C2_Witness ==
    /\ op = "vector_mix"
    /\ backend = "sse2"
    /\ sel = <<mix4_c, mix4_z, mix4_d, mix4_w>>
    /\ out = <<in1[3], in0[3], in1[4], in0[4]>>
    /\ in0[3] # in1[3]

(***************************************************************************)
(* Comparisons: masks and their reductions                                 *)
(***************************************************************************)
\* The C++ comparison operators on two floats
ScalarCmp(kind, x, y) ==
    CASE kind = "equal" -> FEq(x, y)
      [] kind = "less_than" -> FLt(x, y)
      [] kind = "less_equal" -> FLe(x, y)
      [] kind = "greater_than" -> FGt(x, y)
      [] kind = "greater_equal" -> FGe(x, y)

\* _mm_cmpeq_ps, _mm_cmplt_ps, _mm_cmple_ps, _mm_cmpgt_ps, _mm_cmpge_ps
mm_cmp_ps(kind, a, b) ==
    Vec4(LAMBDA i: IF ScalarCmp(kind, a[i], b[i]) THEN AllOnes ELSE PosZero)

\* _mm_cmpneq_ps: true also when a lane is unordered
mm_cmpneq_ps(a, b) == Vec4(LAMBDA i: IF FEq(a[i], b[i]) THEN PosZero ELSE AllOnes)

\* vceqq_f32, vcltq_f32, vcleq_f32, vcgeq_f32 (128-bit, four lanes)
vcq_f32(kind, a, b) ==
    Vec4(LAMBDA i: IF ScalarCmp(kind, a[i], b[i]) THEN AllOnes ELSE PosZero)

\* vclt_f32, vcle_f32, vcge_f32, vcgt_f32 (64-bit, two lanes)
vc_f32(kind, a, b) ==
    << IF ScalarCmp(kind, a[1], b[1]) THEN AllOnes ELSE PosZero,
       IF ScalarCmp(kind, a[2], b[2]) THEN AllOnes ELSE PosZero >>

vget_low_f32(v) == <<v[1], v[2]>>

\* Mutation of _mm_movemask_ps: lane x lands in the most significant bit
mm_movemask_ps_reversed(a) == a[4].s + 2 * a[3].s + 4 * a[2].s + 8 * a[1].s

\* _mm_movemask_ps: the four sign bits, lane x in bit 0
mm_movemask_ps(a) == a[1].s + 2 * a[2].s + 4 * a[3].s + 8 * a[4].s

\* The 16 bytes of a 128-bit register
VecBytes(v) == Bytes(v[1]) \o Bytes(v[2]) \o Bytes(v[3]) \o Bytes(v[4])
vget_low_u8(v) == SubSeq(VecBytes(v), 1, 8)
vget_high_u8(v) == SubSeq(VecBytes(v), 9, 16)

vzip_u8(a, b) ==
    [val0 |-> <<a[1], b[1], a[2], b[2], a[3], b[3], a[4], b[4]>>,
     val1 |-> <<a[5], b[5], a[6], b[6], a[7], b[7], a[8], b[8]>>]

\* 8-byte registers read as four 16-bit elements
vzip_u16(a, b) ==
    [val0 |-> <<a[1], a[2], b[1], b[2], a[3], a[4], b[3], b[4]>>,
     val1 |-> <<a[5], a[6], b[5], b[6], a[7], a[8], b[7], b[8]>>]

vget_lane_u32(v, lane) ==
    FromBytes(<<v[4 * lane + 1], v[4 * lane + 2], v[4 * lane + 3], v[4 * lane + 4]>>)

\* vget_lane_u64(mask, 0) of a 2-lane register: both 32-bit halves
vget_lane_u64(m) == <<m[1], m[2]>>
U64_ALL_ONES == <<AllOnes, AllOnes>>
U64_ZERO == <<PosZero, PosZero>>
U32_00FFFFFF == W(0, 1, 8388607)

\* The NEON reduction: one byte of each lane gathered into a 32-bit word
neon_zip_mask(mask) ==
    LET z8 == vzip_u8(vget_low_u8(mask), vget_high_u8(mask))
        z16 == vzip_u16(z8.val0, z8.val1)
    IN vget_lane_u32(z16.val0, 0)

\* vector_all_less_than / vector_all_less_equal / vector_all_greater_equal
vector_all_cmp(kind, b, lhs, rhs) ==
    IF RTM_SSE2_INTRINSICS(b) THEN mm_movemask_ps(mm_cmp_ps(kind, lhs, rhs)) = 15
    ELSE IF RTM_NEON_INTRINSICS(b) THEN neon_zip_mask(vcq_f32(kind, lhs, rhs)) = AllOnes
    ELSE ScalarCmp(kind, lhs[1], rhs[1]) /\ ScalarCmp(kind, lhs[2], rhs[2])
         /\ ScalarCmp(kind, lhs[3], rhs[3]) /\ ScalarCmp(kind, lhs[4], rhs[4])

\* vector_all_less_than2 / vector_all_less_equal2 / vector_all_greater_equal2
vector_all_cmp2(kind, b, lhs, rhs) ==
    IF RTM_SSE2_INTRINSICS(b) THEN BitAnd(mm_movemask_ps(mm_cmp_ps(kind, lhs, rhs)), 3, 4) = 3
    ELSE IF RTM_NEON_INTRINSICS(b)
         THEN vget_lane_u64(vc_f32(kind, vget_low_f32(lhs), vget_low_f32(rhs))) = U64_ALL_ONES
    ELSE ScalarCmp(kind, lhs[1], rhs[1]) /\ ScalarCmp(kind, lhs[2], rhs[2])

\* vector_all_less_than3 / vector_all_less_equal3 / vector_all_greater_equal3
vector_all_cmp3(kind, b, lhs, rhs) ==
    IF RTM_SSE2_INTRINSICS(b) THEN BitAnd(mm_movemask_ps(mm_cmp_ps(kind, lhs, rhs)), 7, 4) = 7
    ELSE IF RTM_NEON_INTRINSICS(b)
         THEN WAnd(neon_zip_mask(vcq_f32(kind, lhs, rhs)), U32_00FFFFFF) = U32_00FFFFFF
    ELSE ScalarCmp(kind, lhs[1], rhs[1]) /\ ScalarCmp(kind, lhs[2], rhs[2])
         /\ ScalarCmp(kind, lhs[3], rhs[3])

\* vector_any_less_than / vector_any_less_equal / vector_any_greater_equal
vector_any_cmp(kind, b, lhs, rhs) ==
    IF RTM_SSE2_INTRINSICS(b) THEN mm_movemask_ps(mm_cmp_ps(kind, lhs, rhs)) # 0
    ELSE IF RTM_NEON_INTRINSICS(b) THEN neon_zip_mask(vcq_f32(kind, lhs, rhs)) # PosZero
    ELSE ScalarCmp(kind, lhs[1], rhs[1]) \/ ScalarCmp(kind, lhs[2], rhs[2])
         \/ ScalarCmp(kind, lhs[3], rhs[3]) \/ ScalarCmp(kind, lhs[4], rhs[4])

\* vector_any_less_than2 / vector_any_less_equal2 / vector_any_greater_equal2
vector_any_cmp2(kind, b, lhs, rhs) ==
    IF RTM_SSE2_INTRINSICS(b) THEN BitAnd(mm_movemask_ps(mm_cmp_ps(kind, lhs, rhs)), 3, 4) # 0
    ELSE IF RTM_NEON_INTRINSICS(b)
         THEN vget_lane_u64(vc_f32(kind, vget_low_f32(lhs), vget_low_f32(rhs))) # U64_ZERO
    ELSE ScalarCmp(kind, lhs[1], rhs[1]) \/ ScalarCmp(kind, lhs[2], rhs[2])

\* vector_any_less_than3 / vector_any_less_equal3 / vector_any_greater_equal3
vector_any_cmp3(kind, b, lhs, rhs) ==
    IF RTM_SSE2_INTRINSICS(b) THEN BitAnd(mm_movemask_ps(mm_cmp_ps(kind, lhs, rhs)), 7, 4) # 0
    ELSE IF RTM_NEON_INTRINSICS(b)
         THEN WAnd(neon_zip_mask(vcq_f32(kind, lhs, rhs)), U32_00FFFFFF) # PosZero
    ELSE ScalarCmp(kind, lhs[1], rhs[1]) \/ ScalarCmp(kind, lhs[2], rhs[2])
         \/ ScalarCmp(kind, lhs[3], rhs[3])

\* vector_equal, vector_less_than, vector_less_equal, vector_greater_equal:
\* the SSE2 compare, the 128-bit NEON compare, or get_mask_value per lane
vector_compare(kind, b, lhs, rhs) ==
    IF RTM_SSE2_INTRINSICS(b) THEN mm_cmp_ps(kind, lhs, rhs)
    ELSE IF RTM_NEON_INTRINSICS(b) THEN vcq_f32(kind, lhs, rhs)
    ELSE Vec4(LAMBDA i: get_mask_value(ScalarCmp(kind, lhs[i], rhs[i])))

\* vector_greater_than: as above, except that the NEON branch calls the
\* 64-bit vcgt_f32, which compares lanes x and y only; the upper half of the
\* returned 128-bit mask (hi) is not written by the comparison.
vector_greater_than(b, lhs, rhs, hi) ==
    IF RTM_SSE2_INTRINSICS(b) THEN mm_cmp_ps("greater_than", lhs, rhs)
    ELSE IF RTM_NEON_INTRINSICS(b)
         THEN vc_f32("greater_than", lhs, rhs) \o hi
    ELSE Vec4(LAMBDA i: get_mask_value(ScalarCmp("greater_than", lhs[i], rhs[i])))

\* What the two lanes not written by a 64-bit instruction may hold
UndefWords == {PosZero, AllOnes, W(0, 0, 1)}
UndefHalves == {<<u, v>> : u \in UndefWords, v \in UndefWords}

ReduceKinds == {"less_than", "less_equal", "greater_equal"}
MaskKinds == {"equal", "less_than", "less_equal", "greater_equal"}

\* Lane pairs (lhs lane, rhs lane): below, equal, above, unordered, and the
\* far-apart pair of the all_less_than3 example
CmpLanePairs ==
    {<<IntToFloat(i), One>> : i \in 0..(MaxLaneInt + 1)}
      \cup {<<QNaN, One>>, <<IntToFloat(100), IntToFloat(0 - 100)>>}

CmpInputs ==
    { << <<p1[1], p2[1], p3[1], p4[1]>>, <<p1[2], p2[2], p3[2], p4[2]>> >>
      : p1 \in CmpLanePairs, p2 \in CmpLanePairs, p3 \in CmpLanePairs, p4 \in CmpLanePairs }

Compare ==
    /\ op = "init"
    /\ \E kind \in MaskKinds, p \in CmpInputs :
         CallN("vector_compare", kind, 4, p[1], p[2],
               vector_compare(kind, backend, p[1], p[2]), FALSE)

GreaterThan ==
    /\ op = "init"
    /\ \E p \in CmpInputs, hi \in UndefHalves :
         CallN("vector_compare", "greater_than", 4, p[1], p[2],
               vector_greater_than(backend, p[1], p[2], hi), FALSE)

All4 ==
    /\ op = "init"
    /\ \E kind \in ReduceKinds, p \in CmpInputs :
         CallN("vector_all", kind, 4, p[1], p[2], ZeroVec, vector_all_cmp(kind, backend, p[1], p[2]))

All2 ==
    /\ op = "init"
    /\ \E kind \in ReduceKinds, p \in CmpInputs :
         CallN("vector_all", kind, 2, p[1], p[2], ZeroVec, vector_all_cmp2(kind, backend, p[1], p[2]))

All3 ==
    /\ op = "init"
    /\ \E kind \in ReduceKinds, p \in CmpInputs :
         CallN("vector_all", kind, 3, p[1], p[2], ZeroVec, vector_all_cmp3(kind, backend, p[1], p[2]))

Any4 ==
    /\ op = "init"
    /\ \E kind \in ReduceKinds, p \in CmpInputs :
         CallN("vector_any", kind, 4, p[1], p[2], ZeroVec, vector_any_cmp(kind, backend, p[1], p[2]))

Any2 ==
    /\ op = "init"
    /\ \E kind \in ReduceKinds, p \in CmpInputs :
         CallN("vector_any", kind, 2, p[1], p[2], ZeroVec, vector_any_cmp2(kind, backend, p[1], p[2]))

Any3 ==
    /\ op = "init"
    /\ \E kind \in ReduceKinds, p \in CmpInputs :
         CallN("vector_any", kind, 3, p[1], p[2], ZeroVec, vector_any_cmp3(kind, backend, p[1], p[2]))

InitCmp ==
    /\ backend \in Backends
    /\ InitRegs
    /\ out = ZeroVec

NextCmp == Compare \/ GreaterThan \/ All4 \/ All2 \/ All3 \/ Any4 \/ Any2 \/ Any3

SpecCmp == InitCmp /\ [][NextCmp]_vars

\* C3: every all/any reduction of less_than, less_equal, greater_equal over
\* N in {2, 3, 4} lanes is the AND / OR of the per-lane comparison on the
\* first N lanes only, on every backend, whatever the trailing lanes hold.
C3_ReductionsUseLeadingLanes ==
    /\ op = "vector_all" =>
         (flag <=> \A i \in 1..count : ScalarCmp(variant, in0[i], in1[i]))
    /\ op = "vector_any" =>
         (flag <=> \E i \in 1..count : ScalarCmp(variant, in0[i], in1[i]))

\* all_less_than3((0,0,0,100),(1,1,1,-100)) is true on the NEON byte-zip path
C3_Witness ==
    /\ op = "vector_all"
    /\ variant = "less_than"
    /\ count = 3
    /\ backend = "neon"
    /\ in0 = <<PosZero, PosZero, PosZero, IntToFloat(100)>>
    /\ in1 = <<One, One, One, IntToFloat(0 - 100)>>
    /\ flag = TRUE

\* C5: every lane of a comparison mask is all-ones or all-zero, and all-ones
\* exactly when the comparison holds for that lane (false for NaN lanes).
C5_MaskLanesAreSentinels ==
    op = "vector_compare" =>
      \A i \in Lanes :
        /\ IsMaskLane(out[i])
        /\ (out[i] = AllOnes) <=> ScalarCmp(variant, in0[i], in1[i])

\* The NEON vector_greater_than returns the two compared lanes only: the
\* upper lanes of the mask are whatever the register held (here a denormal)
C5_Witness ==
    /\ op = "vector_compare"
    /\ variant = "greater_than"
    /\ backend = "neon"
    /\ in0[3] = IntToFloat(2)
    /\ in1[3] = One
    /\ out[3] = W(0, 0, 1)

(***************************************************************************)
(* vector_select                                                           *)
(***************************************************************************)
\* rtm_impl::select(mask, if_true, if_false): mask != 0 ? if_true : if_false
rtm_impl_select(mask, if_true, if_false) == IF mask # PosZero THEN if_true ELSE if_false

vector_select(b, mask, if_true, if_false) ==
    IF RTM_AVX_INTRINSICS(b) THEN mm_blendv_ps(if_false, if_true, mask)
    ELSE IF RTM_SSE2_INTRINSICS(b)
         THEN mm_or_ps(mm_andnot_ps(mask, if_false), mm_and_ps(if_true, mask))
    ELSE IF RTM_NEON_INTRINSICS(b) THEN vbslq_f32(mask, if_true, if_false)
    ELSE Vec4(LAMBDA i: rtm_impl_select(mask[i], if_true[i], if_false[i]))

\* Mask lanes a caller can pass: the two sentinels and a partial pattern
SelMaskLanes == {AllOnes, PosZero, W(0, 0, 1)}
SelMasks == {<<a, b, c, d>> : a \in SelMaskLanes, b \in SelMaskLanes,
                              c \in SelMaskLanes, d \in SelMaskLanes}
SelTrueLanes == {One, NegZero, QNaN}
SelTrue == {<<a, b, c, QNaN>> : a \in SelTrueLanes, b \in SelTrueLanes, c \in SelTrueLanes}
SelFalse == {<<IntToFloat(k + 2), PosInf, PosZero, NegOne>> : k \in 0..MaxLaneInt}

Select ==
    /\ op = "init"
    /\ \E m \in SelMasks, t \in SelTrue, f \in SelFalse :
         Call("vector_select", "none", m, t, f, PosZero, NoSel,
              vector_select(backend, m, t, f), FALSE)

InitSelect ==
    /\ backend \in Backends
    /\ InitRegs
    /\ out = ZeroVec

NextSelect == Select

SpecSelect == InitSelect /\ [][NextSelect]_vars

\* C4: with a mask of sentinel lanes, each output lane of vector_select is
\* the if_true lane exactly when the mask lane is all-ones and the if_false
\* lane otherwise, and every backend path returns that same vector.
C4_SelectBlendsPerLane ==
    (op = "vector_select" /\ \A i \in Lanes : IsMaskLane(in0[i])) =>
      /\ \A i \in Lanes : out[i] = IF in0[i] = AllOnes THEN in1[i] ELSE in2[i]
      /\ \A b \in Backends : vector_select(b, in0, in1, in2) = out

C4_Witness ==
    /\ op = "vector_select"
    /\ backend = "sse2"
    /\ in0 = <<AllOnes, PosZero, PosZero, AllOnes>>
    /\ in1 = <<NegZero, One, QNaN, QNaN>>
    /\ in2 = <<IntToFloat(2), PosInf, PosZero, NegOne>>
    /\ out = <<NegZero, PosInf, PosZero, QNaN>>

(***************************************************************************)
(* Loads and stores.  Memory is a sequence of bytes; a pointer is a byte   *)
(* offset into it.                                                         *)
(***************************************************************************)
BufLen == 6
SizeofFloat == 4
SizeofVector4f == 16

\* input[i] read through a const float*
ReadFloat(m, p, i) == FromBytes(SubSeq(m, p + 4 * i + 1, p + 4 * i + 4))

\* Mutation of std::memcpy: the whole source object is copied
memcpy_whole_object(m, p, src, n) ==
    SubSeq(SubSeq(m, 1, p) \o src \o SubSeq(m, p + Len(src) + 1, Len(m)), 1, Len(m))

\* std::memcpy(m + p, src, n)
memcpy(m, p, src, n) == SubSeq(m, 1, p) \o SubSeq(src, 1, n) \o SubSeq(m, p + n + 1, Len(m))

\* output[i] = value through a float*
WriteFloat(m, p, i, value) == memcpy(m, p + 4 * i, Bytes(value), SizeofFloat)

mm_loadu_ps(m, p) == <<ReadFloat(m, p, 0), ReadFloat(m, p, 1), ReadFloat(m, p, 2), ReadFloat(m, p, 3)>>

\* Mutation of _mm_load_ss: the upper three lanes are loaded as well
mm_load_ss_wide(m, p) == <<ReadFloat(m, p, 0), ReadFloat(m, p, 1), ReadFloat(m, p, 2), ReadFloat(m, p, 3)>>

\* _mm_load_ss: lane x from memory, upper lanes zeroed
mm_load_ss(m, p) == <<ReadFloat(m, p, 0), PosZero, PosZero, PosZero>>
vld1q_f32(m, p) == <<ReadFloat(m, p, 0), ReadFloat(m, p, 1), ReadFloat(m, p, 2), ReadFloat(m, p, 3)>>
vdupq_n_f32(f) == <<f, f, f, f>>
vld1q_lane_f32(m, p, vec, lane) == Vec4(LAMBDA i: IF i = lane + 1 THEN ReadFloat(m, p, 0) ELSE vec[i])
mm_storeu_ps(m, p, a) == memcpy(m, p, VecBytes(a), SizeofVector4f)

\* vector_load(const float*)
vector_load(b, m, p) ==
    IF RTM_SSE2_INTRINSICS(b) THEN mm_loadu_ps(m, p)
    ELSE IF RTM_NEON_INTRINSICS(b) THEN vld1q_f32(m, p)
    ELSE vector_set(ReadFloat(m, p, 0), ReadFloat(m, p, 1), ReadFloat(m, p, 2), ReadFloat(m, p, 3))

vector_load1(b, m, p) ==
    IF RTM_SSE2_INTRINSICS(b) THEN mm_load_ss(m, p)
    ELSE IF RTM_NEON_INTRINSICS(b) THEN vld1q_lane_f32(m, p, vdupq_n_f32(PosZero), 0)
    ELSE vector_set(ReadFloat(m, p, 0), PosZero, PosZero, PosZero)

vector_load2(b, m, p) == vector_set(ReadFloat(m, p, 0), ReadFloat(m, p, 1), PosZero, PosZero)

\* Mutation of vector_load3: lane w is read from memory as well
vector_load3_wide(b, m, p) ==
    vector_set(ReadFloat(m, p, 0), ReadFloat(m, p, 1), ReadFloat(m, p, 2), ReadFloat(m, p, 3))

vector_load3(b, m, p) == vector_set(ReadFloat(m, p, 0), ReadFloat(m, p, 1), ReadFloat(m, p, 2), PosZero)

\* vector_load(const float4f*): &input->x is the struct's address
vector_load_float4f(b, m, p) ==
    IF RTM_SSE2_INTRINSICS(b) THEN mm_loadu_ps(m, p)
    ELSE IF RTM_NEON_INTRINSICS(b) THEN vld1q_f32(m, p)
    ELSE vector_set(ReadFloat(m, p, 0), ReadFloat(m, p, 1), ReadFloat(m, p, 2), ReadFloat(m, p, 3))

vector_load2_float2f(b, m, p) == vector_set(ReadFloat(m, p, 0), ReadFloat(m, p, 1), PosZero, PosZero)

vector_load3_float3f(b, m, p) ==
    vector_set(ReadFloat(m, p, 0), ReadFloat(m, p, 1), ReadFloat(m, p, 2), PosZero)

\* vector_store(input, float*)
vector_store(b, input, m, p) ==
    IF RTM_SSE2_INTRINSICS(b) THEN mm_storeu_ps(m, p, input)
    ELSE LET m0 == WriteFloat(m, p, 0, vector_get_x(b, input))
             m1 == WriteFloat(m0, p, 1, vector_get_y(b, input))
             m2 == WriteFloat(m1, p, 2, vector_get_z(b, input))
         IN WriteFloat(m2, p, 3, vector_get_w(b, input))

vector_store1(b, input, m, p) == WriteFloat(m, p, 0, vector_get_x(b, input))

vector_store2(b, input, m, p) ==
    LET m0 == WriteFloat(m, p, 0, vector_get_x(b, input))
    IN WriteFloat(m0, p, 1, vector_get_y(b, input))

vector_store3(b, input, m, p) ==
    LET m0 == WriteFloat(m, p, 0, vector_get_x(b, input))
        m1 == WriteFloat(m0, p, 1, vector_get_y(b, input))
    IN WriteFloat(m1, p, 2, vector_get_z(b, input))

\* The uint8_t* overloads copy the leading bytes of the register's image
vector_store_u8(b, input, m, p) == memcpy(m, p, VecBytes(input), SizeofVector4f)
vector_store1_u8(b, input, m, p) == memcpy(m, p, VecBytes(input), SizeofFloat * 1)
vector_store2_u8(b, input, m, p) == memcpy(m, p, VecBytes(input), SizeofFloat * 2)
vector_store3_u8(b, input, m, p) == memcpy(m, p, VecBytes(input), SizeofFloat * 3)

\* vector_store(input, float4f*), vector_store2(input, float2f*), vector_store3(input, float3f*)
vector_store_float4f(b, input, m, p) ==
    IF RTM_SSE2_INTRINSICS(b) THEN mm_storeu_ps(m, p, input)
    ELSE LET m0 == WriteFloat(m, p, 0, vector_get_x(b, input))
             m1 == WriteFloat(m0, p, 1, vector_get_y(b, input))
             m2 == WriteFloat(m1, p, 2, vector_get_z(b, input))
         IN WriteFloat(m2, p, 3, vector_get_w(b, input))

vector_store2_float2f(b, input, m, p) ==
    LET m0 == WriteFloat(m, p, 0, vector_get_x(b, input))
    IN WriteFloat(m0, p, 1, vector_get_y(b, input))

vector_store3_float3f(b, input, m, p) ==
    LET m0 == WriteFloat(m, p, 0, vector_get_x(b, input))
        m1 == WriteFloat(m0, p, 1, vector_get_y(b, input))
    IN WriteFloat(m1, p, 2, vector_get_z(b, input))

\* A load or store of n floats at byte offset p
CallMem(o, v, n, p, a, r, m) ==
    /\ op' = o
    /\ variant' = v
    /\ count' = n
    /\ ptr' = p
    /\ in0' = a
    /\ out' = r
    /\ mem' = m
    /\ UNCHANGED <<backend, in1, in2, scalar, sel, flag, mem0, threads>>

\* Byte offsets at which n floats fit: float-aligned for float* and the
\* structs, any byte for uint8_t*
FloatOffsets(n) == {4 * k : k \in 0..(BufLen - n)}
ByteOffsets(n) == 0..(4 * (BufLen - n))

MemCells == {QNaN, NegOne}

RECURSIVE CellBytes(_, _)
CellBytes(f, i) == IF i > BufLen THEN <<>> ELSE Bytes(f[i]) \o CellBytes(f, i + 1)

Buffers == {CellBytes(f, 1) : f \in [1..BufLen -> MemCells]}

StoreVecs ==
    {<<IntToFloat(k + 1), IntToFloat(k + 2), NegZero, IntToFloat(k + 4)>> : k \in 0..MaxLaneInt}
      \cup {<<PosInf, One, W(0, 0, 1), AllOnes>>}

Load ==
    /\ op = "init"
    /\ \E p \in FloatOffsets(4) :
         \/ CallMem("vector_load", "float*", 4, p, ZeroVec, vector_load(backend, mem, p), mem)
         \/ CallMem("vector_load", "struct", 4, p, ZeroVec, vector_load_float4f(backend, mem, p), mem)

Load1 ==
    /\ op = "init"
    /\ \E p \in FloatOffsets(1) :
         CallMem("vector_load", "float*", 1, p, ZeroVec, vector_load1(backend, mem, p), mem)

Load2 ==
    /\ op = "init"
    /\ \E p \in FloatOffsets(2) :
         \/ CallMem("vector_load", "float*", 2, p, ZeroVec, vector_load2(backend, mem, p), mem)
         \/ CallMem("vector_load", "struct", 2, p, ZeroVec, vector_load2_float2f(backend, mem, p), mem)

Load3 ==
    /\ op = "init"
    /\ \E p \in FloatOffsets(3) :
         \/ CallMem("vector_load", "float*", 3, p, ZeroVec, vector_load3(backend, mem, p), mem)
         \/ CallMem("vector_load", "struct", 3, p, ZeroVec, vector_load3_float3f(backend, mem, p), mem)

Store ==
    /\ op = "init"
    /\ \E v \in StoreVecs :
         \/ \E p \in FloatOffsets(4) :
              \/ CallMem("vector_store", "float*", 4, p, v, ZeroVec, vector_store(backend, v, mem, p))
              \/ CallMem("vector_store", "struct", 4, p, v, ZeroVec, vector_store_float4f(backend, v, mem, p))
         \/ \E p \in ByteOffsets(4) :
              CallMem("vector_store", "uint8_t*", 4, p, v, ZeroVec, vector_store_u8(backend, v, mem, p))

Store1 ==
    /\ op = "init"
    /\ \E v \in StoreVecs :
         \/ \E p \in FloatOffsets(1) :
              CallMem("vector_store", "float*", 1, p, v, ZeroVec, vector_store1(backend, v, mem, p))
         \/ \E p \in ByteOffsets(1) :
              CallMem("vector_store", "uint8_t*", 1, p, v, ZeroVec, vector_store1_u8(backend, v, mem, p))

Store2 ==
    /\ op = "init"
    /\ \E v \in StoreVecs :
         \/ \E p \in FloatOffsets(2) :
              \/ CallMem("vector_store", "float*", 2, p, v, ZeroVec, vector_store2(backend, v, mem, p))
              \/ CallMem("vector_store", "struct", 2, p, v, ZeroVec, vector_store2_float2f(backend, v, mem, p))
         \/ \E p \in ByteOffsets(2) :
              CallMem("vector_store", "uint8_t*", 2, p, v, ZeroVec, vector_store2_u8(backend, v, mem, p))

Store3 ==
    /\ op = "init"
    /\ \E v \in StoreVecs :
         \/ \E p \in FloatOffsets(3) :
              \/ CallMem("vector_store", "float*", 3, p, v, ZeroVec, vector_store3(backend, v, mem, p))
              \/ CallMem("vector_store", "struct", 3, p, v, ZeroVec, vector_store3_float3f(backend, v, mem, p))
         \/ \E p \in ByteOffsets(3) :
              CallMem("vector_store", "uint8_t*", 3, p, v, ZeroVec, vector_store3_u8(backend, v, mem, p))

InitMem ==
    /\ backend \in Backends
    /\ op = "init"
    /\ variant = "none"
    /\ count = 4
    /\ in0 = ZeroVec
    /\ in1 = ZeroVec
    /\ in2 = ZeroVec
    /\ scalar = PosZero
    /\ sel = NoSel
    /\ flag = FALSE
    /\ out = ZeroVec
    /\ ptr = 0
    /\ mem0 \in Buffers
    /\ mem = mem0
    /\ threads = <<>>

NextMem == Load \/ Load1 \/ Load2 \/ Load3 \/ Store \/ Store1 \/ Store2 \/ Store3

SpecMem == InitMem /\ [][NextMem]_vars

\* C6: vector_load1/2/3 return the first 1, 2 or 3 source floats in order
\* with the remaining lanes exactly +0.0, and vector_load returns the four
\* source floats in lane order, on every backend.
C6_LoadZeroFills ==
    op = "vector_load" =>
      \A i \in Lanes :
        out[i] = IF i <= count THEN ReadFloat(mem0, ptr, i - 1) ELSE PosZero

C6_Witness ==
    /\ op = "vector_load"
    /\ count = 1
    /\ backend = "neon"
    /\ ptr = 4
    /\ ReadFloat(mem0, 4, 0) = NegOne
    /\ ReadFloat(mem0, 4, 1) = QNaN
    /\ out = <<NegOne, PosZero, PosZero, PosZero>>

\* C7: a store of N lanes writes the first N lanes, in lane order, to the
\* N destination floats and leaves every other byte of the buffer unchanged.
C7_StoreWritesExactlyNLanes ==
    op = "vector_store" =>
      /\ Len(mem) = Len(mem0)
      /\ \A k \in 1..Len(mem) :
           mem[k] = IF k > ptr /\ k <= ptr + 4 * count
                    THEN VecBytes(in0)[k - ptr]
                    ELSE mem0[k]

C7_Witness ==
    /\ op = "vector_store"
    /\ variant = "uint8_t*"
    /\ count = 3
    /\ ptr = 5
    /\ in0 = <<PosInf, One, W(0, 0, 1), AllOnes>>
    /\ ReadFloat(mem, 5, 2) = W(0, 0, 1)
    /\ SubSeq(mem, 18, 24) = SubSeq(mem0, 18, 24)
    /\ mem # mem0

(***************************************************************************)
(* Arithmetic and interpolation                                            *)
(***************************************************************************)
mm_add_ps(a, b) == Vec4(LAMBDA i: FAdd(a[i], b[i]))

\* Mutation of _mm_sub_ps: the operands are exchanged
mm_sub_ps_reversed(a, b) == Vec4(LAMBDA i: FSub(b[i], a[i]))

mm_sub_ps(a, b) == Vec4(LAMBDA i: FSub(a[i], b[i]))
mm_mul_ps(a, b) == Vec4(LAMBDA i: FMul(a[i], b[i]))

vaddq_f32(a, b) == Vec4(LAMBDA i: FAddN(a[i], b[i], ArmDefaultNaN))
vsubq_f32(a, b) == Vec4(LAMBDA i: FSubN(a[i], b[i], ArmDefaultNaN))
vmulq_f32(a, b) == Vec4(LAMBDA i: FMulN(a[i], b[i], ArmDefaultNaN))
vmulq_n_f32(a, n) == Vec4(LAMBDA i: FMulN(a[i], n, ArmDefaultNaN))

\* AArch64 fused forms: a + b * c and a - b * c with one rounding
vfmaq_f32(a, b, c) == Vec4(LAMBDA i: FFma(b[i], c[i], a[i]))
vfmaq_n_f32(a, b, n) == Vec4(LAMBDA i: FFma(b[i], n, a[i]))
vfmsq_f32(a, b, c) == Vec4(LAMBDA i: FFma(FNeg(b[i]), c[i], a[i]))
vfmsq_n_f32(a, b, n) == Vec4(LAMBDA i: FFma(FNeg(b[i]), n, a[i]))

\* ARMv7 chained forms: the product is rounded before it is accumulated
vmlaq_f32(a, b, c) == Vec4(LAMBDA i: FAddN(a[i], FMulN(b[i], c[i], ArmDefaultNaN), ArmDefaultNaN))
vmlaq_n_f32(a, b, n) == Vec4(LAMBDA i: FAddN(a[i], FMulN(b[i], n, ArmDefaultNaN), ArmDefaultNaN))
vmlsq_f32(a, b, c) == Vec4(LAMBDA i: FSubN(a[i], FMulN(b[i], c[i], ArmDefaultNaN), ArmDefaultNaN))
vmlsq_n_f32(a, b, n) == Vec4(LAMBDA i: FSubN(a[i], FMulN(b[i], n, ArmDefaultNaN), ArmDefaultNaN))

\* vector_set(scalarf): the scalar register's lane x in every lane
vector_set_scalarf(s) == mm_shuffle_ps(s, s, MM_SHUFFLE(0, 0, 0, 0))

vector_add(b, lhs, rhs) ==
    IF RTM_SSE2_INTRINSICS(b) THEN mm_add_ps(lhs, rhs)
    ELSE IF RTM_NEON_INTRINSICS(b) THEN vaddq_f32(lhs, rhs)
    ELSE vector_set(FAdd(lhs[1], rhs[1]), FAdd(lhs[2], rhs[2]), FAdd(lhs[3], rhs[3]), FAdd(lhs[4], rhs[4]))

vector_sub(b, lhs, rhs) ==
    IF RTM_SSE2_INTRINSICS(b) THEN mm_sub_ps(lhs, rhs)
    ELSE IF RTM_NEON_INTRINSICS(b) THEN vsubq_f32(lhs, rhs)
    ELSE vector_set(FSub(lhs[1], rhs[1]), FSub(lhs[2], rhs[2]), FSub(lhs[3], rhs[3]), FSub(lhs[4], rhs[4]))

vector_mul(b, lhs, rhs) ==
    IF RTM_SSE2_INTRINSICS(b) THEN mm_mul_ps(lhs, rhs)
    ELSE IF RTM_NEON_INTRINSICS(b) THEN vmulq_f32(lhs, rhs)
    ELSE vector_set(FMul(lhs[1], rhs[1]), FMul(lhs[2], rhs[2]), FMul(lhs[3], rhs[3]), FMul(lhs[4], rhs[4]))

\* vector_mul(vector4f, float)
vector_mul_float(b, lhs, rhs) ==
    IF RTM_NEON_INTRINSICS(b) THEN vmulq_n_f32(lhs, rhs)
    ELSE vector_mul(b, lhs, vector_set1(rhs))

\* vector_mul(vector4f, scalarf), SSE2 builds only
vector_mul_scalarf(b, lhs, rhs) == mm_mul_ps(lhs, mm_shuffle_ps(rhs, rhs, MM_SHUFFLE(0, 0, 0, 0)))

\* v2 + (v0 * v1)
vector_mul_add(b, v0, v1, v2) ==
    IF RTM_NEON64_INTRINSICS(b) THEN vfmaq_f32(v2, v0, v1)
    ELSE IF RTM_NEON_INTRINSICS(b) THEN vmlaq_f32(v2, v0, v1)
    ELSE vector_add(b, vector_mul(b, v0, v1), v2)

\* vector_mul_add(vector4f, float, vector4f)
vector_mul_add_float(b, v0, s1, v2) ==
    IF RTM_NEON64_INTRINSICS(b) THEN vfmaq_n_f32(v2, v0, s1)
    ELSE IF RTM_NEON_INTRINSICS(b) THEN vmlaq_n_f32(v2, v0, s1)
    ELSE vector_add(b, vector_mul_float(b, v0, s1), v2)

\* v2 - (v0 * v1)
vector_neg_mul_sub(b, v0, v1, v2) ==
    IF RTM_NEON64_INTRINSICS(b) THEN vfmsq_f32(v2, v0, v1)
    ELSE IF RTM_NEON_INTRINSICS(b) THEN vmlsq_f32(v2, v0, v1)
    ELSE vector_sub(b, v2, vector_mul(b, v0, v1))

\* vector_neg_mul_sub(vector4f, float, vector4f)
vector_neg_mul_sub_float(b, v0, s1, v2) ==
    IF RTM_NEON64_INTRINSICS(b) THEN vfmsq_n_f32(v2, v0, s1)
    ELSE IF RTM_NEON_INTRINSICS(b) THEN vmlsq_n_f32(v2, v0, s1)
    ELSE vector_sub(b, v2, vector_mul_float(b, v0, s1))

\* vector_lerp(start, end, float alpha)
vector_lerp(b, start, end, alpha) ==
    vector_mul_add_float(b, end, alpha, vector_neg_mul_sub_float(b, start, alpha, start))

\* vector_lerp(start, end, scalarf alpha), SSE2 builds only
vector_lerp_scalarf(b, start, end, alpha) ==
    LET alpha_v == vector_set_scalarf(alpha)
    IN vector_mul_add(b, end, alpha_v, vector_neg_mul_sub(b, start, alpha_v, start))

MaxFloat == W(0, 254, 8388607)
MinDenormal == W(0, 0, 1)

\* Finite lanes: zeros of both signs, a denormal, the largest float, values
\* with full and short mantissas
LerpLanes ==
    {PosZero, NegZero, MinDenormal, MaxFloat, W(1, 127, 4194304), W(0, 125, 8388607)}
      \cup {IntToFloat(MaxLaneInt + 2)}
LerpAlphas == {PosZero, One, Half}

Lerp ==
    /\ op = "init"
    /\ \E s1 \in LerpLanes, s2 \in LerpLanes, e1 \in LerpLanes, e2 \in LerpLanes, alpha \in LerpAlphas :
         LET start == <<s1, s2, s2, s1>>
             end == <<e1, e2, e1, e2>>
         IN \/ Call("vector_lerp", "float", start, end, ZeroVec, alpha, NoSel,
                    vector_lerp(backend, start, end, alpha), FALSE)
            \/ /\ RTM_SSE2_INTRINSICS(backend)
               /\ \E r \in ScalarfRegs(alpha) :
                    Call("vector_lerp", "scalarf", start, end, r, alpha, NoSel,
                         vector_lerp_scalarf(backend, start, end, r), FALSE)

InitLerp ==
    /\ backend \in Backends
    /\ InitRegs
    /\ out = ZeroVec

NextLerp == Lerp

SpecLerp == InitLerp /\ [][NextLerp]_vars

\* C8 as stated: with finite lanes, vector_lerp(a, b, 0.0) is a bit for bit
\* and vector_lerp(a, b, 1.0) is b bit for bit, zeros of either sign included.
C8_LerpEndpointsBitExact ==
    op = "vector_lerp" =>
      /\ scalar = PosZero => out = in0
      /\ scalar = One => out = in1

\* C8 amended: at alpha 0.0 (1.0) every lane of the result is the lane of a
\* (of b) bit for bit, except that a -0.0 lane comes back as +0.0.
C8_LerpEndpointsUpToZeroSign ==
    op = "vector_lerp" =>
      /\ scalar = PosZero =>
           \A i \in Lanes : out[i] = IF in0[i] = NegZero THEN PosZero ELSE in0[i]
      /\ scalar = One =>
           \A i \in Lanes : out[i] = IF in1[i] = NegZero THEN PosZero ELSE in1[i]

C8_Witness ==
    /\ op = "vector_lerp"
    /\ backend = "neon64"
    /\ scalar = PosZero
    /\ in0 = <<NegZero, MinDenormal, MinDenormal, NegZero>>
    /\ in1 = <<MaxFloat, NegZero, MaxFloat, NegZero>>
    /\ out = <<PosZero, MinDenormal, MinDenormal, PosZero>>

(***************************************************************************)
(* Rounding                                                                *)
(***************************************************************************)
\* Integer part of the magnitude of a finite word below 2^31
FloatIntPart(w) ==
    IF Exp(w) >= 150 THEN Sig(w) * Pow2(Exp(w) - 150)
    ELSE IF 150 - Exp(w) >= 24 THEN 0
    ELSE Sig(w) \div Pow2(150 - Exp(w))

\* The fraction of the magnitude compared with one half: "none", "below",
\* "half" or "above"
FloatFraction(w) ==
    IF Exp(w) >= 150 \/ Sig(w) = 0 THEN "none"
    ELSE LET sh == 150 - Exp(w)
         IN IF sh >= 25 THEN "below"
            ELSE LET rem == Sig(w) % Pow2(sh)
                     half == Pow2(sh - 1)
                 IN IF rem = 0 THEN "none"
                    ELSE IF rem < half THEN "below"
                    ELSE IF rem = half THEN "half"
                    ELSE "above"

\* roundps toward negative infinity; also std::floor
FFloor(w) ==
    IF IsNaN(w) THEN Quiet(w)
    ELSE IF IsInf(w) \/ Exp(w) >= 150 \/ IsZero(w) THEN w
    ELSE IF w.s = 0 THEN RoundPack(0, FloatIntPart(w), 0)
    ELSE RoundPack(1, FloatIntPart(w) + (IF FloatFraction(w) = "none" THEN 0 ELSE 1), 0)

\* roundps toward positive infinity; also std::ceil
FCeil(w) == FNeg(FFloor(FNeg(w)))

\* roundps to nearest, ties to even
FRoundEven(w) ==
    IF IsNaN(w) THEN Quiet(w)
    ELSE IF IsInf(w) \/ Exp(w) >= 150 \/ IsZero(w) THEN w
    ELSE LET ip == FloatIntPart(w)
             fr == FloatFraction(w)
             up == fr = "above" \/ (fr = "half" /\ ip % 2 = 1)
         IN RoundPack(w.s, IF up THEN ip + 1 ELSE ip, 0)

\* One lane of cvttps2dq: truncation; NaN and out-of-range give 0x80000000
CvttToInt(w) ==
    IF w.e = 255 \/ Exp(w) >= 158 THEN INT_MIN
    ELSE IF w.s = 0 THEN FloatIntPart(w) ELSE 0 - FloatIntPart(w)

\* One lane of cvtps2dq: round to nearest even; NaN and out-of-range give 0x80000000
CvtToInt(w) ==
    IF w.e = 255 \/ Exp(w) >= 158 THEN INT_MIN
    ELSE LET ip == FloatIntPart(w)
             fr == FloatFraction(w)
             n == IF fr = "above" \/ (fr = "half" /\ ip % 2 = 1) THEN ip + 1 ELSE ip
         IN IF w.s = 0 THEN n ELSE 0 - n

\* The 32 bits of a word read as a signed integer, and back
CastToInt(w) == IF w.s = 0 THEN w.e * Hidden + w.m ELSE (w.e * Hidden + w.m) + INT_MIN
CastToFloat(i) ==
    IF i >= 0 THEN W(0, i \div Hidden, i % Hidden)
    ELSE W(1, (i - INT_MIN) \div Hidden, (i - INT_MIN) % Hidden)

mm_set_ps(e3, e2, e1, e0) == <<e0, e1, e2, e3>>
mm_set_epi32(e3, e2, e1, e0) == <<e0, e1, e2, e3>>
mm_castsi128_ps(a) == Vec4(LAMBDA i: CastToFloat(a[i]))
mm_castps_si128(a) == Vec4(LAMBDA i: CastToInt(a[i]))
mm_cvtepi32_ps(a) == Vec4(LAMBDA i: IntToFloat(a[i]))
mm_cvtps_epi32(a) == Vec4(LAMBDA i: CvtToInt(a[i]))
mm_cvttps_epi32(a) == Vec4(LAMBDA i: CvttToInt(a[i]))
mm_ceil_ps(a) == Vec4(LAMBDA i: FCeil(a[i]))
\* Mutation of _mm_round_ps: ties are rounded away from zero
mm_round_ps_half_away(a) ==
    Vec4(LAMBDA i: IF FloatFraction(a[i]) = "half" /\ ~IsNaN(a[i])
                   THEN RoundPack(a[i].s, FloatIntPart(a[i]) + 1, 0)
                   ELSE FRoundEven(a[i]))

\* _mm_round_ps(a, _MM_FROUND_TO_NEAREST_INT | _MM_FROUND_NO_EXC)
mm_round_ps_nearest(a) == Vec4(LAMBDA i: FRoundEven(a[i]))

\* Mutation of _mm_floor_ps: rounds toward zero
mm_floor_ps_truncating(a) == Vec4(LAMBDA i: IF a[i].s = 0 THEN FFloor(a[i]) ELSE FCeil(a[i]))

mm_floor_ps(a) == Vec4(LAMBDA i: FFloor(a[i]))

\* The scalar kernels of the portable paths
scalar_floor(x) == FFloor(x)
scalar_ceil(x) == FCeil(x)
scalar_round_bankers(x) ==
    IF IsNaN(x) \/ IsInf(x) \/ Exp(x) >= 150 THEN x ELSE FRoundEven(x)

INT32_7FFFFFFF == 2147483647
FractionalLimit == W(0, 150, 0)

\* Mutation of vector_ceil: the SSE2 path returns the corrected conversion
\* in every lane
vector_ceil_unmasked(b, input) ==
    IF RTM_SSE4_INTRINSICS(b) THEN mm_ceil_ps(input)
    ELSE IF RTM_SSE2_INTRINSICS(b) THEN
      LET integer_part == mm_cvtepi32_ps(mm_cvtps_epi32(input))
          is_positive == mm_cmp_ps("less_than", integer_part, input)
          bias == mm_cvtepi32_ps(mm_castps_si128(is_positive))
      IN mm_sub_ps(integer_part, bias)
    ELSE vector_set(scalar_ceil(vector_get_x(b, input)), scalar_ceil(vector_get_y(b, input)),
                    scalar_ceil(vector_get_z(b, input)), scalar_ceil(vector_get_w(b, input)))

vector_ceil(b, input) ==
    IF RTM_SSE4_INTRINSICS(b) THEN mm_ceil_ps(input)
    ELSE IF RTM_SSE2_INTRINSICS(b) THEN
      LET abs_mask == mm_set_epi32(INT32_7FFFFFFF, INT32_7FFFFFFF, INT32_7FFFFFFF, INT32_7FFFFFFF)
          fractional_limit == mm_set_ps1(FractionalLimit)
          abs_input == mm_and_ps(input, mm_castsi128_ps(abs_mask))
          is_input_large == mm_cmp_ps("greater_equal", abs_input, fractional_limit)
          is_nan == mm_cmpneq_ps(input, input)
          use_original_input == mm_or_ps(is_input_large, is_nan)
          integer_part == mm_cvtepi32_ps(mm_cvtps_epi32(input))
          is_positive == mm_cmp_ps("less_than", integer_part, input)
          bias == mm_cvtepi32_ps(mm_castps_si128(is_positive))
          integer_part2 == mm_sub_ps(integer_part, bias)
      IN mm_or_ps(mm_and_ps(use_original_input, input), mm_andnot_ps(use_original_input, integer_part2))
    ELSE vector_set(scalar_ceil(vector_get_x(b, input)), scalar_ceil(vector_get_y(b, input)),
                    scalar_ceil(vector_get_z(b, input)), scalar_ceil(vector_get_w(b, input)))

vector_floor(b, input) ==
    IF RTM_SSE4_INTRINSICS(b) THEN mm_floor_ps(input)
    ELSE IF RTM_SSE2_INTRINSICS(b) THEN
      LET abs_mask == mm_set_epi32(INT32_7FFFFFFF, INT32_7FFFFFFF, INT32_7FFFFFFF, INT32_7FFFFFFF)
          fractional_limit == mm_set_ps1(FractionalLimit)
          abs_input == mm_and_ps(input, mm_castsi128_ps(abs_mask))
          is_input_large == mm_cmp_ps("greater_equal", abs_input, fractional_limit)
          is_nan == mm_cmpneq_ps(input, input)
          use_original_input == mm_or_ps(is_input_large, is_nan)
          integer_part == mm_cvtepi32_ps(mm_cvtps_epi32(input))
          is_negative == mm_cmp_ps("greater_than", integer_part, input)
          bias == mm_cvtepi32_ps(mm_castps_si128(is_negative))
          integer_part2 == mm_add_ps(integer_part, bias)
      IN mm_or_ps(mm_and_ps(use_original_input, input), mm_andnot_ps(use_original_input, integer_part2))
    ELSE vector_set(scalar_floor(vector_get_x(b, input)), scalar_floor(vector_get_y(b, input)),
                    scalar_floor(vector_get_z(b, input)), scalar_floor(vector_get_w(b, input)))

vector_round_symmetric(b, input) ==
    IF RTM_SSE4_INTRINSICS(b) THEN
      LET sign_mask == mm_set_ps(NegZero, NegZero, NegZero, NegZero)
          sign == mm_and_ps(input, sign_mask)
          bias == mm_or_ps(sign, mm_set_ps1(Half))
          biased_input == mm_add_ps(input, bias)
          floored == mm_floor_ps(biased_input)
          ceiled == mm_ceil_ps(biased_input)
          is_positive == mm_cmp_ps("greater_equal", input, mm_setzero_ps)
      IN vector_select(b, is_positive, floored, ceiled)
    ELSE IF RTM_SSE2_INTRINSICS(b) THEN
      LET abs_mask == mm_set_epi32(INT32_7FFFFFFF, INT32_7FFFFFFF, INT32_7FFFFFFF, INT32_7FFFFFFF)
          fractional_limit == mm_set_ps1(FractionalLimit)
          abs_input == mm_and_ps(input, mm_castsi128_ps(abs_mask))
          is_input_large == mm_cmp_ps("greater_equal", abs_input, fractional_limit)
          is_nan == mm_cmpneq_ps(input, input)
          use_original_input == mm_or_ps(is_input_large, is_nan)
          sign_mask == mm_set_ps(NegZero, NegZero, NegZero, NegZero)
          sign == mm_and_ps(input, sign_mask)
          bias == mm_or_ps(sign, mm_set_ps1(Half))
          biased_input == mm_add_ps(input, bias)
          integer_part == mm_cvtepi32_ps(mm_cvttps_epi32(biased_input))
      IN mm_or_ps(mm_and_ps(use_original_input, input), mm_andnot_ps(use_original_input, integer_part))
    ELSE
      LET half == vector_set1(Half)
          floored == vector_floor(b, vector_add(b, input, half))
          ceiled == vector_ceil(b, vector_sub(b, input, half))
          is_greater_equal == vector_compare("greater_equal", b, input, vector_zero)
      IN vector_select(b, is_greater_equal, floored, ceiled)

vector_round_bankers(b, input) ==
    IF RTM_SSE4_INTRINSICS(b) THEN mm_round_ps_nearest(input)
    ELSE IF RTM_SSE2_INTRINSICS(b) THEN
      LET sign_mask == mm_set_ps(NegZero, NegZero, NegZero, NegZero)
          sign == mm_and_ps(input, sign_mask)
          fractional_limit == mm_set_ps1(FractionalLimit)
          truncating_offset == mm_or_ps(sign, fractional_limit)
          integer_part == mm_sub_ps(mm_add_ps(input, truncating_offset), truncating_offset)
          abs_mask == mm_set_epi32(INT32_7FFFFFFF, INT32_7FFFFFFF, INT32_7FFFFFFF, INT32_7FFFFFFF)
          abs_input == mm_and_ps(input, mm_castsi128_ps(abs_mask))
          is_input_large == mm_cmp_ps("greater_equal", abs_input, fractional_limit)
      IN mm_or_ps(mm_and_ps(is_input_large, input), mm_andnot_ps(is_input_large, integer_part))
    ELSE vector_set(scalar_round_bankers(vector_get_x(b, input)), scalar_round_bankers(vector_get_y(b, input)),
                    scalar_round_bankers(vector_get_z(b, input)), scalar_round_bankers(vector_get_w(b, input)))

\* Lanes to round: zeros, halves, the header's examples, the value just
\* below one half, values around 2^23, NaN, infinities, extremes
OnePointTwo == W(0, 127, 1677722)
OnePointFive == W(0, 127, 4194304)
TwoPointFive == W(0, 128, 2097152)
BelowHalf == W(0, 125, 8388607)
TwoTo23 == W(0, 150, 0)
TwoTo23PlusOne == W(0, 150, 1)
BelowTwoTo23 == W(0, 149, 8388607)
ThreeQuarters == W(0, 126, 4194304)
ThreePointFive == W(0, 128, 6291456)
TwoTo22AndHalf == W(0, 149, 1)
TwoTo22AndThreeHalves == W(0, 149, 3)

RoundMagnitudes ==
    {PosZero, Half, OnePointTwo, OnePointFive, TwoPointFive, BelowHalf, MinDenormal,
     TwoTo23, TwoTo23PlusOne, BelowTwoTo23, MaxFloat, PosInf, QNaN,
     ThreeQuarters, ThreePointFive, TwoTo22AndHalf, TwoTo22AndThreeHalves}
      \cup {IntToFloat(i) : i \in 1..(MaxLaneInt + 1)}
RoundLanes == RoundMagnitudes \cup {FNeg(w) : w \in RoundMagnitudes}

RoundSymmetric ==
    /\ op = "init"
    /\ \E a \in RoundLanes, c \in RoundLanes :
         Call("vector_round_symmetric", "none", <<a, c, c, a>>, ZeroVec, ZeroVec, PosZero, NoSel,
              vector_round_symmetric(backend, <<a, c, c, a>>), FALSE)

RoundBankers ==
    /\ op = "init"
    /\ \E a \in RoundLanes, c \in RoundLanes :
         Call("vector_round_bankers", "none", <<a, c, c, a>>, ZeroVec, ZeroVec, PosZero, NoSel,
              vector_round_bankers(backend, <<a, c, c, a>>), FALSE)

InitRound ==
    /\ backend \in Backends
    /\ InitRegs
    /\ out = ZeroVec

NextRound == RoundSymmetric \/ RoundBankers

SpecRound == InitRound /\ [][NextRound]_vars

\* A lane with no fractional part to round away
IsLargeOrNonFinite(w) == IsNaN(w) \/ IsInf(w) \/ Exp(w) >= 150

\* C9: on every path of vector_round_symmetric and vector_round_bankers a
\* lane that is NaN, +-Infinity or of magnitude >= 2^23 is returned unchanged.
C9_RoundKeepsLargeLanes ==
    op \in {"vector_round_symmetric", "vector_round_bankers"} =>
      \A i \in Lanes : IsLargeOrNonFinite(in0[i]) => out[i] = in0[i]

\* The SSE4 path adds 0.5 to 2^23 + 1, which rounds to 2^23 + 2
C9_Witness ==
    /\ op = "vector_round_symmetric"
    /\ backend = "sse4"
    /\ in0[1] = TwoTo23PlusOne
    /\ out[1] = W(0, 150, 2)

\* Nearest integer, ties away from zero, of a finite word below 2^23
RoundHalfAway(w) ==
    LET ip == FloatIntPart(w)
        fr == FloatFraction(w)
    IN RoundPack(w.s, IF fr \in {"half", "above"} THEN ip + 1 ELSE ip, 0)

\* C10: for a lane of magnitude below 2^23 vector_round_symmetric returns
\* the nearest integer, ties away from zero, and the SSE4, SSE2 and portable
\* paths return numerically equal lanes, zeros of either sign included.
C10_RoundSymmetricNearestAway ==
    op = "vector_round_symmetric" =>
      \A i \in Lanes :
        (IsFinite(in0[i]) /\ Exp(in0[i]) < 150) =>
          /\ FEq(out[i], RoundHalfAway(in0[i]))
          /\ \A b \in {"sse4", "sse2", "scalar"} :
               FEq(vector_round_symmetric(b, in0)[i], out[i])

\* The SSE4 path rounds -0.0 to -1.0
C10_Witness ==
    /\ op = "vector_round_symmetric"
    /\ backend = "sse4"
    /\ in0[1] = NegZero
    /\ out[1] = NegOne

\* Nearest integer, ties to the even integer, of a finite word below 2^23
RoundHalfEven(w) ==
    LET ip == FloatIntPart(w)
        fr == FloatFraction(w)
    IN RoundPack(w.s, IF fr = "above" \/ (fr = "half" /\ ip % 2 = 1) THEN ip + 1 ELSE ip, 0)

\* C11: for a lane of magnitude below 2^23 vector_round_bankers returns the
\* nearest integer, ties to the even integer, on every path, the SSE2
\* add-then-subtract 2^23 path included.
C11_RoundBankersNearestEven ==
    op = "vector_round_bankers" =>
      \A i \in Lanes :
        (IsFinite(in0[i]) /\ Exp(in0[i]) < 150) => FEq(out[i], RoundHalfEven(in0[i]))

C11_Witness ==
    /\ op = "vector_round_bankers"
    /\ backend = "sse2"
    /\ in0 = <<TwoPointFive, FNeg(OnePointFive), FNeg(OnePointFive), TwoPointFive>>
    /\ out = <<IntToFloat(2), IntToFloat(0 - 2), IntToFloat(0 - 2), IntToFloat(2)>>

\* ---------------------------------------------------------------------
\* vector_floor and vector_ceil
\* ---------------------------------------------------------------------
Ceil ==
    /\ op = "init"
    /\ \E a \in RoundLanes, c \in RoundLanes :
         Call("vector_ceil", "none", <<a, c, c, a>>, ZeroVec, ZeroVec, PosZero, NoSel,
              vector_ceil(backend, <<a, c, c, a>>), FALSE)

Floor ==
    /\ op = "init"
    /\ \E a \in RoundLanes, c \in RoundLanes :
         Call("vector_floor", "none", <<a, c, c, a>>, ZeroVec, ZeroVec, PosZero, NoSel,
              vector_floor(backend, <<a, c, c, a>>), FALSE)

\* vector_floor(vector_ceil(x)): in0 keeps x, in1 keeps vector_ceil(x)
FloorOfCeil ==
    /\ op = "vector_ceil"
    /\ Call("vector_floor_of_ceil", "none", in0, out, ZeroVec, PosZero, NoSel,
            vector_floor(backend, out), FALSE)

InitFloor ==
    /\ backend \in Backends
    /\ InitRegs
    /\ out = ZeroVec

NextFloor == Ceil \/ Floor \/ FloorOfCeil

SpecFloor == InitFloor /\ [][NextFloor]_vars

\* C12: for finite lanes vector_floor(vector_ceil(x)) = vector_ceil(x),
\* vector_ceil(x) >= x and vector_floor(x) <= x, lane by lane.
C12_FloorCeilOrder ==
    /\ op = "vector_ceil" =>
         \A i \in Lanes : IsFinite(in0[i]) => FGe(out[i], in0[i])
    /\ op = "vector_floor" =>
         \A i \in Lanes : IsFinite(in0[i]) => FLe(out[i], in0[i])
    /\ op = "vector_floor_of_ceil" =>
         \A i \in Lanes : IsFinite(in0[i]) => out[i] = in1[i]

C12_Witness ==
    /\ op = "vector_floor_of_ceil"
    /\ backend = "sse2"
    /\ in0 = <<FNeg(OnePointTwo), OnePointTwo, OnePointTwo, FNeg(OnePointTwo)>>
    /\ in1 = <<IntToFloat(0 - 1), IntToFloat(2), IntToFloat(2), IntToFloat(0 - 1)>>
    /\ out = in1

\* C23: on the SSE2 path without SSE4, a lane of magnitude below 2^23 of
\* vector_ceil / vector_floor is the mathematical ceiling / floor of the
\* input lane, and a lane that is NaN, infinite or of magnitude 2^23 or
\* more is the input lane itself, bit for bit, also where the conversion to
\* a 32-bit integer overflows.
C23_Sse2CeilFloor ==
    (backend = "sse2" /\ op \in {"vector_ceil", "vector_floor"}) =>
      \A i \in Lanes :
        IF IsFinite(in0[i]) /\ Exp(in0[i]) < 150
        THEN FEq(out[i], IF op = "vector_ceil" THEN FCeil(in0[i]) ELSE FFloor(in0[i]))
        ELSE out[i] = in0[i]

\* ceil(2.5, -FLT_MAX, -FLT_MAX, 2.5) on SSE2: 3 from the conversion to 2
\* corrected by one, and the input where the conversion overflows
C23_Witness ==
    /\ op = "vector_ceil"
    /\ backend = "sse2"
    /\ in0 = <<TwoPointFive, FNeg(MaxFloat), FNeg(MaxFloat), TwoPointFive>>
    /\ CvtToInt(in0[1]) = 2
    /\ CvtToInt(in0[2]) = INT_MIN
    /\ out = <<IntToFloat(3), FNeg(MaxFloat), FNeg(MaxFloat), IntToFloat(3)>>

\* ---------------------------------------------------------------------
\* vector_dot3, vector_length_squared3 and vector_normalize3
\* ---------------------------------------------------------------------
mm_add_ss(a, b) == <<FAdd(a[1], b[1]), a[2], a[3], a[4]>>

vget_high_f32(v) == <<v[3], v[4]>>
vcombine_f32(lo, hi) == <<lo[1], lo[2], hi[1], hi[2]>>
vget_lane_f32(v, lane) == v[lane + 1]
vdup_lane_f32(v, lane) == <<v[lane + 1], v[lane + 1]>>
vadd_f32(a, b) == <<FAddN(a[1], b[1], ArmDefaultNaN), FAddN(a[2], b[2], ArmDefaultNaN)>>
vpadd_f32(a, b) == <<FAddN(a[1], a[2], ArmDefaultNaN), FAddN(b[1], b[2], ArmDefaultNaN)>>

\* scalarf -> float
scalar_cast(b, s) == IF RTM_SSE2_INTRINSICS(b) THEN mm_cvtss_f32(s) ELSE s

\* rtm_impl::vector4f_vector_dot3::operator scalarf() on SSE2 builds
dot3_x2y2z2_0_0_0(x2_y2_z2_w2) ==
    mm_add_ss(mm_add_ss(x2_y2_z2_w2, mm_shuffle_ps(x2_y2_z2_w2, x2_y2_z2_w2, MM_SHUFFLE(0, 0, 0, 1))),
              mm_shuffle_ps(x2_y2_z2_w2, x2_y2_z2_w2, MM_SHUFFLE(0, 0, 0, 2)))
vector_dot3_scalarf(lhs, rhs) == dot3_x2y2z2_0_0_0(mm_mul_ps(lhs, rhs))

\* The NEON steps of operator float(): x2 + y2 in both lanes of a half
\* register, then z2 added to each
dot3_neon_x2y2_x2y2(x2_y2) == vpadd_f32(x2_y2, x2_y2)
dot3_neon_x2y2z2(x2_y2_z2_w2) ==
    vget_lane_f32(vadd_f32(dot3_neon_x2y2_x2y2(vget_low_f32(x2_y2_z2_w2)),
                           vdup_lane_f32(vget_high_f32(x2_y2_z2_w2), 0)), 0)

\* rtm_impl::vector4f_vector_dot3::operator float()
vector_dot3_float(b, lhs, rhs) ==
    IF RTM_SSE2_INTRINSICS(b) THEN mm_cvtss_f32(vector_dot3_scalarf(lhs, rhs))
    ELSE IF RTM_NEON_INTRINSICS(b) THEN dot3_neon_x2y2z2(vmulq_f32(lhs, rhs))
    ELSE FAdd(FAdd(FMul(vector_get_x(b, lhs), vector_get_x(b, rhs)),
                   FMul(vector_get_y(b, lhs), vector_get_y(b, rhs))),
              FMul(vector_get_z(b, lhs), vector_get_z(b, rhs)))

\* Mutation of vector_dot3: the product of the w lanes is added as well
vector_dot3_with_w(b, lhs, rhs) ==
    IF RTM_SSE2_INTRINSICS(b)
    THEN mm_add_ss(vector_dot3_scalarf(lhs, rhs), mm_set_ps1(FMul(lhs[4], rhs[4])))
    ELSE FAdd(vector_dot3_float(b, lhs, rhs), FMul(lhs[4], rhs[4]))

\* The wrapper of vector_dot3 converted to scalarf: a register on SSE2
\* builds, a float elsewhere
vector_dot3(b, lhs, rhs) ==
    IF RTM_SSE2_INTRINSICS(b) THEN vector_dot3_scalarf(lhs, rhs)
    ELSE vector_dot3_float(b, lhs, rhs)

vector_length_squared3(b, input) == vector_dot3(b, input, input)

\* scalar_sqrt_reciprocal(float): every result an implementation of
\* 1 / sqrt(x) can give.  The quotient of the rounded root is one; a
\* Newton-Raphson refinement of a hardware estimate gives NaN at 0 and at
\* +Infinity, where the refinement multiplies 0 by Infinity.
scalar_sqrt_reciprocal_results(x) ==
    {FDiv(One, FSqrt(x))} \cup (IF IsZero(x) \/ x = PosInf THEN {DefaultNaN} ELSE {})

\* The scalarf holding a float
scalarf_of(b, f) == IF RTM_SSE2_INTRINSICS(b) THEN mm_set_ps1(f) ELSE f

\* vector_mul(vector4f, scalarf) where scalarf is a register on SSE2 builds
\* and a float elsewhere
vector_mul_by_scalarf(b, lhs, rhs) ==
    IF RTM_SSE2_INTRINSICS(b) THEN vector_mul_scalarf(b, lhs, rhs)
    ELSE vector_mul_float(b, lhs, rhs)

\* Mutation of vector_normalize3: a squared length equal to the threshold
\* is replaced by the fallback
vector_normalize3_strict(b, input, fallback, threshold, inv_len) ==
    IF FGt(scalar_cast(b, vector_length_squared3(b, input)), threshold)
    THEN vector_mul_by_scalarf(b, input, inv_len)
    ELSE fallback

\* vector_normalize3(input, fallback, threshold); inv_len is the scalarf
\* that scalar_sqrt_reciprocal(len_sq) returned
vector_normalize3(b, input, fallback, threshold, inv_len) ==
    IF FGe(scalar_cast(b, vector_length_squared3(b, input)), threshold)
    THEN vector_mul_by_scalarf(b, input, inv_len)
    ELSE fallback

DefaultThreshold == W(0, 100, 2870391)
TenToMinus4 == W(0, 113, 5355287)

NormalizeLanes ==
    {PosZero, NegZero, One, IntToFloat(0 - 2), Half, TenToMinus4, MinDenormal, MaxFloat,
     PosInf, NegInf, QNaN}
NormalizeZLanes == {PosZero, IntToFloat(2), NegInf, QNaN}
NormalizeFallbacks ==
    {<<PosZero, PosZero, One, NegZero>>, <<IntToFloat(2), One, PosZero, MinDenormal>>}
NormalizeThresholds == {DefaultThreshold, One, IntToFloat(4), PosZero, QNaN}

\* in2 records the squared length read by the comparison and the value
\* scalar_sqrt_reciprocal returned (+0.0 when it was not called)
Normalize3 ==
    /\ op = "init"
    /\ \E x \in NormalizeLanes, y \in NormalizeLanes, z \in NormalizeZLanes,
          fallback \in NormalizeFallbacks, threshold \in NormalizeThresholds :
         \E input \in {<<x, y, z, IntToFloat(3)>>} :
           \E len_sq \in {scalar_cast(backend, vector_length_squared3(backend, input))} :
             \E inv \in (IF FGe(len_sq, threshold)
                         THEN scalar_sqrt_reciprocal_results(len_sq) ELSE {PosZero}) :
               Call("vector_normalize3", "fallback", input, fallback, <<len_sq, inv, PosZero, PosZero>>,
                    threshold, NoSel,
                    vector_normalize3(backend, input, fallback, threshold, scalarf_of(backend, inv)),
                    FALSE)

InitNormalize ==
    /\ backend \in Backends
    /\ InitRegs
    /\ out = ZeroVec

NextNormalize == Normalize3

SpecNormalize == InitNormalize /\ [][NextNormalize]_vars

\* x*x + y*y + z*z of the first three lanes, summed left to right
SquaredLength3(v) == FAdd(FAdd(FMul(v[1], v[1]), FMul(v[2], v[2])), FMul(v[3], v[3]))

\* Equal as float values: the same bits, or both NaN
SameFloat(a, b) == (IsNaN(a) /\ IsNaN(b)) \/ a = b

C14_NonFiniteLengthFallsBack ==
    (op = "vector_normalize3" /\ IsFinite(scalar) /\ \A i \in Lanes : IsFinite(in1[i])) =>
      LET len_sq == SquaredLength3(in0)
      IN (IsNaN(len_sq) \/ len_sq = PosInf \/ FLt(len_sq, scalar)) =>
           /\ out = in1
           /\ \A i \in Lanes : IsFinite(out[i])

\* An infinite x lane with the default threshold: the squared length is
\* +Infinity, the comparison passes and the lanes are multiplied by the
\* reciprocal square root of +Infinity
C14_Witness ==
    /\ op = "vector_normalize3"
    /\ in0 = <<PosInf, PosZero, PosZero, IntToFloat(3)>>
    /\ scalar = DefaultThreshold
    /\ in2[1] = PosInf
    /\ out # in1
    /\ IsNaN(out[1])

\* ---------------------------------------------------------------------
\* vector_div, vector_reciprocal and the hardware reciprocal estimates
\* ---------------------------------------------------------------------
mm_div_ps(a, b) == Vec4(LAMBDA i: FDiv(a[i], b[i]))
vdivq_f32(a, b) == Vec4(LAMBDA i: FDivN(a[i], b[i], ArmDefaultNaN))

\* Step of the mantissa at the twelfth fraction bit
RcpStep == 2048

\* One lane of _mm_rcp_ps.  The instruction is specified up to a relative
\* error of 1.5 * 2^-12, so a normal lane has several possible results; two
\* are kept, the reciprocal cut to twelve fraction bits ("low") and the
\* next twelve-bit value above it ("high").  A zero or denormal lane gives
\* an infinity, a lane whose reciprocal is denormal gives zero.
mm_rcp_ss(w, estimate) ==
    IF IsNaN(w) THEN Quiet(w)
    ELSE IF w.e = 0 THEN W(w.s, 255, 0)
    ELSE IF IsInf(w) THEN W(w.s, 0, 0)
    ELSE LET r == FDiv(One, w)
             lo == W(r.s, r.e, (r.m \div RcpStep) * RcpStep)
             hi == IF lo.m + RcpStep < Hidden THEN W(r.s, r.e, lo.m + RcpStep)
                   ELSE W(r.s, r.e + 1, 0)
         IN IF r.e = 0 THEN W(w.s, 0, 0)
            ELSE IF estimate = "low" THEN lo ELSE hi

RcpEstimates == {"low", "high"}

\* The possible results of _mm_rcp_ps(a): the same hardware estimates
\* every lane
mm_rcp_ps_results(a) == {Vec4(LAMBDA i: mm_rcp_ss(a[i], estimate)) : estimate \in RcpEstimates}

\* RecipEstimate of the Arm pseudocode: a in 256..511, result in 256..511
RecipEstimate(a) == ((524288 \div (a * 2 + 1)) + 1) \div 2

\* One lane of vrecpeq_f32 (FPRecipEstimate, round to nearest, no flushing)
FPRecipEstimate(w) ==
    IF IsNaN(w) THEN Quiet(w)
    ELSE IF IsInf(w) THEN W(w.s, 0, 0)
    ELSE IF IsZero(w) THEN W(w.s, 255, 0)
    ELSE IF w.e = 0 /\ w.m < 2097152 THEN W(w.s, 255, 0)
    ELSE LET exp == IF w.e # 0 THEN w.e ELSE IF w.m < 4194304 THEN 0 - 1 ELSE 0
             fraction == IF w.e # 0 THEN w.m
                         ELSE IF w.m < 4194304 THEN (w.m * 4) % Hidden
                         ELSE (w.m * 2) % Hidden
             scaled == 256 + (fraction \div 32768)
             result_exp == 253 - exp
             estimate == (RecipEstimate(scaled) % 256) * 32768
         IN IF result_exp = 0 THEN W(w.s, 0, 4194304 + (estimate \div 2))
            ELSE IF result_exp = 0 - 1 THEN W(w.s, 0, 2097152 + (estimate \div 4))
            ELSE W(w.s, result_exp, estimate)

vrecpeq_f32(a) == Vec4(LAMBDA i: FPRecipEstimate(a[i]))

Two == W(0, 128, 0)

\* One lane of vrecpsq_f32: 2.0 - a * b, and 2.0 for infinity times zero.
\* AArch64 (FPRecipStepFused) rounds once, AArch32 (FPRecipStep) rounds the
\* product and then the difference.
FPRecipStepFused(a, b) ==
    IF IsNaN(a) \/ IsNaN(b) THEN FFma(FNeg(a), b, Two)
    ELSE IF (IsInf(a) /\ IsZero(b)) \/ (IsZero(a) /\ IsInf(b)) THEN Two
    ELSE FFma(FNeg(a), b, Two)

FPRecipStep(a, b) ==
    LET product == IF (IsInf(a) /\ IsZero(b)) \/ (IsZero(a) /\ IsInf(b)) THEN PosZero
                   ELSE FMulN(a, b, ArmDefaultNaN)
    IN FSubN(Two, product, ArmDefaultNaN)

vrecpsq_f32(b, x, y) ==
    IF RTM_NEON64_INTRINSICS(b) THEN Vec4(LAMBDA i: FPRecipStepFused(x[i], y[i]))
    ELSE Vec4(LAMBDA i: FPRecipStep(x[i], y[i]))

vector_div(b, lhs, rhs) ==
    IF RTM_SSE2_INTRINSICS(b) THEN mm_div_ps(lhs, rhs)
    ELSE IF RTM_NEON64_INTRINSICS(b) THEN vdivq_f32(lhs, rhs)
    ELSE IF RTM_NEON_INTRINSICS(b) THEN
      The({The({The({
        vmulq_f32(lhs, x2)
        : x2 \in {vmulq_f32(x1, vrecpsq_f32(b, x1, rhs))}})
        : x1 \in {vmulq_f32(x0, vrecpsq_f32(b, x0, rhs))}})
        : x0 \in {vrecpeq_f32(rhs)}})
    ELSE vector_set(FDiv(lhs[1], rhs[1]), FDiv(lhs[2], rhs[2]), FDiv(lhs[3], rhs[3]), FDiv(lhs[4], rhs[4]))

\* vector_reciprocal; rcp is the value _mm_rcp_ps(input) returned, read on
\* SSE2 builds only
vector_reciprocal(b, input, rcp) ==
    IF RTM_SSE2_INTRINSICS(b) THEN
      The({The({The({
        x2
        : x2 \in {mm_sub_ps(mm_add_ps(x1, x1), mm_mul_ps(input, mm_mul_ps(x1, x1)))}})
        : x1 \in {mm_sub_ps(mm_add_ps(x0, x0), mm_mul_ps(input, mm_mul_ps(x0, x0)))}})
        : x0 \in {rcp}})
    ELSE IF RTM_NEON_INTRINSICS(b) THEN
      The({The({The({
        x2
        : x2 \in {vmulq_f32(x1, vrecpsq_f32(b, x1, input))}})
        : x1 \in {vmulq_f32(x0, vrecpsq_f32(b, x0, input))}})
        : x0 \in {vrecpeq_f32(input)}})
    ELSE vector_div(b, vector_set1(One), input)

\* ---------------------------------------------------------------------
\* vector_atan and vector_atan2
\* ---------------------------------------------------------------------
AtanC6 == W(0, 119, 7100945)
AtanC5 == W(1, 122, 1022653)
AtanC4 == W(0, 123, 2573743)
AtanC3 == W(1, 124, 586973)
AtanC2 == W(0, 124, 4936906)
AtanC1 == W(1, 125, 2793406)
HalfPi == W(0, 127, 4788187)
Pi == W(0, 128, 4788187)

\* scalar_atan(float): the same degree 13 polynomial on one lane, with the
\* reciprocal of a value above one taken by division
scalar_atan(v) ==
    LET abs_value == W(0, v.e, v.m)
        is_larger_than_one == FGt(abs_value, One)
    IN The({The({The({The({The({The({The({The({
       The({The({
         W(v.s, result.e, result.m)
         : result \in {IF is_larger_than_one THEN FSub(HalfPi, r6) ELSE r6}})
         : r6 \in {FMul(r5, x)}})
         : r5 \in {FAdd(FMul(r4, x2), One)}})
         : r4 \in {FAdd(FMul(r3, x2), AtanC1)}})
         : r3 \in {FAdd(FMul(r2, x2), AtanC2)}})
         : r2 \in {FAdd(FMul(r1, x2), AtanC3)}})
         : r1 \in {FAdd(FMul(r0, x2), AtanC4)}})
         : r0 \in {FAdd(FMul(x2, AtanC6), AtanC5)}})
         : x2 \in {FMul(x, x)}})
         : x \in {IF is_larger_than_one THEN FDiv(One, abs_value) ELSE abs_value}})

\* vector_atan; rcp is the value _mm_rcp_ps(abs_value) returned inside
\* vector_reciprocal, read on SSE2 builds only
vector_atan(b, input, rcp) ==
    IF RTM_SSE2_INTRINSICS(b) THEN
      LET abs_mask == mm_set_epi32(INT32_7FFFFFFF, INT32_7FFFFFFF, INT32_7FFFFFFF, INT32_7FFFFFFF)
      IN The({The({The({The({The({The({The({The({
         The({The({The({The({The({The({
           mm_or_ps(result, mm_and_ps(input, mm_set_ps1(NegZero)))
           : result \in {vector_select(b, is_larger_than_one, remapped, r6)}})
           : remapped \in {mm_sub_ps(mm_set_ps1(HalfPi), r6)}})
           : r6 \in {mm_mul_ps(r5, x)}})
           : r5 \in {mm_add_ps(mm_mul_ps(r4, x2), mm_set_ps1(One))}})
           : r4 \in {mm_add_ps(mm_mul_ps(r3, x2), mm_set_ps1(AtanC1))}})
           : r3 \in {mm_add_ps(mm_mul_ps(r2, x2), mm_set_ps1(AtanC2))}})
           : r2 \in {mm_add_ps(mm_mul_ps(r1, x2), mm_set_ps1(AtanC3))}})
           : r1 \in {mm_add_ps(mm_mul_ps(r0, x2), mm_set_ps1(AtanC4))}})
           : r0 \in {mm_add_ps(mm_mul_ps(x2, mm_set_ps1(AtanC6)), mm_set_ps1(AtanC5))}})
           : x2 \in {mm_mul_ps(x, x)}})
           : x \in {vector_select(b, is_larger_than_one, reciprocal, abs_value)}})
           : reciprocal \in {vector_reciprocal(b, abs_value, rcp)}})
           : is_larger_than_one \in {mm_cmp_ps("greater_than", abs_value, mm_set_ps1(One))}})
           : abs_value \in {mm_and_ps(input, mm_castsi128_ps(abs_mask))}})
    ELSE vector_set(scalar_atan(vector_get_x(b, input)), scalar_atan(vector_get_y(b, input)),
                    scalar_atan(vector_get_z(b, input)), scalar_atan(vector_get_w(b, input)))

\* scalar_atan2(y, x): 0 when both are zero, pi/2 with the sign of y when
\* only x is zero, else atan(y / x) offset by 0 (x > 0) or by pi with the
\* sign of y (x < 0)
scalar_atan2(y, x) ==
    IF FEq(x, PosZero) THEN
      (IF FEq(y, PosZero) THEN PosZero ELSE W(y.s, HalfPi.e, HalfPi.m))
    ELSE The({The({
           IF FGt(x, PosZero) THEN value ELSE FAdd(value, W(y.s, Pi.e, Pi.m))
           : value \in {scalar_atan(angle)}})
           : angle \in {FDiv(y, x)}})

\* Mutation of vector_atan2: the offset is not cleared when both inputs are
\* zero
vector_atan2_unguarded(b, y, x, rcp) ==
    IF RTM_SSE2_INTRINSICS(b) THEN
      LET zero == mm_setzero_ps
          sign_mask == mm_set_ps(NegZero, NegZero, NegZero, NegZero)
          half_pi == mm_set_ps1(HalfPi)
          pi == mm_set_ps1(Pi)
      IN The({The({The({The({The({The({The({The({
         The({The({The({The({The({
           mm_add_ps(value, offset)
           : value \in {mm_andnot_ps(inputs_are_zero, value1)}})
           : value1 \in {mm_or_ps(mm_and_ps(is_x_zero, zero), mm_andnot_ps(is_x_zero, value0))}})
           : value0 \in {vector_atan(b, angle, rcp)}})
           : angle \in {mm_div_ps(y, x)}})
           : offset \in {offset2}})
           : offset2 \in {mm_andnot_ps(is_x_positive, offset1)}})
           : offset1 \in {mm_or_ps(offset0, y_sign)}})
           : offset0 \in {mm_or_ps(mm_and_ps(is_x_zero, half_pi), mm_andnot_ps(is_x_zero, pi))}})
           : y_sign \in {mm_and_ps(y, sign_mask)}})
           : is_x_positive \in {mm_cmp_ps("greater_than", x, zero)}})
           : inputs_are_zero \in {mm_and_ps(is_x_zero, is_y_zero)}})
           : is_y_zero \in {mm_cmp_ps("equal", y, zero)}})
           : is_x_zero \in {mm_cmp_ps("equal", x, zero)}})
    ELSE vector_set(scalar_atan2(vector_get_x(b, y), vector_get_x(b, x)),
                    scalar_atan2(vector_get_y(b, y), vector_get_y(b, x)),
                    scalar_atan2(vector_get_z(b, y), vector_get_z(b, x)),
                    scalar_atan2(vector_get_w(b, y), vector_get_w(b, x)))

\* vector_atan2(y, x); rcp is the value _mm_rcp_ps returned inside
\* vector_atan(y / x), read on SSE2 builds only
vector_atan2(b, y, x, rcp) ==
    IF RTM_SSE2_INTRINSICS(b) THEN
      LET zero == mm_setzero_ps
          sign_mask == mm_set_ps(NegZero, NegZero, NegZero, NegZero)
          half_pi == mm_set_ps1(HalfPi)
          pi == mm_set_ps1(Pi)
      IN The({The({The({The({The({The({The({The({
         The({The({The({The({The({
           mm_add_ps(value, offset)
           : value \in {mm_andnot_ps(inputs_are_zero, value1)}})
           : value1 \in {mm_or_ps(mm_and_ps(is_x_zero, zero), mm_andnot_ps(is_x_zero, value0))}})
           : value0 \in {vector_atan(b, angle, rcp)}})
           : angle \in {mm_div_ps(y, x)}})
           : offset \in {mm_andnot_ps(inputs_are_zero, offset2)}})
           : offset2 \in {mm_andnot_ps(is_x_positive, offset1)}})
           : offset1 \in {mm_or_ps(offset0, y_sign)}})
           : offset0 \in {mm_or_ps(mm_and_ps(is_x_zero, half_pi), mm_andnot_ps(is_x_zero, pi))}})
           : y_sign \in {mm_and_ps(y, sign_mask)}})
           : is_x_positive \in {mm_cmp_ps("greater_than", x, zero)}})
           : inputs_are_zero \in {mm_and_ps(is_x_zero, is_y_zero)}})
           : is_y_zero \in {mm_cmp_ps("equal", y, zero)}})
           : is_x_zero \in {mm_cmp_ps("equal", x, zero)}})
    ELSE vector_set(scalar_atan2(vector_get_x(b, y), vector_get_x(b, x)),
                    scalar_atan2(vector_get_y(b, y), vector_get_y(b, x)),
                    scalar_atan2(vector_get_z(b, y), vector_get_z(b, x)),
                    scalar_atan2(vector_get_w(b, y), vector_get_w(b, x)))

\* |v| lane by lane
AbsLanes(v) == Vec4(LAMBDA i: W(0, v[i].e, v[i].m))

\* The values _mm_rcp_ps can return for its argument inside vector_atan
AtanRcpResults(b, input) ==
    IF RTM_SSE2_INTRINSICS(b) THEN mm_rcp_ps_results(AbsLanes(input)) ELSE {ZeroVec}

Atan2Lanes ==
    {PosZero, NegZero, One, NegOne, IntToFloat(2), IntToFloat(0 - 3), Half, MinDenormal,
     FNeg(MaxFloat), PosInf, QNaN}

\* in2 records the estimate _mm_rcp_ps returned inside vector_atan(y / x)
Atan2 ==
    /\ op = "init"
    /\ \E y1 \in Atan2Lanes, x1 \in Atan2Lanes, y2 \in {One, NegZero}, x2 \in {PosZero, NegOne} :
         \E y \in {<<y1, y2, y1, y2>>}, x \in {<<x1, x2, x1, x2>>} :
           \E rcp \in AtanRcpResults(backend, mm_div_ps(y, x)) :
             Call("vector_atan2", "none", y, x, rcp, PosZero, NoSel,
                  vector_atan2(backend, y, x, rcp), FALSE)

InitAtan2 ==
    /\ backend \in Backends
    /\ InitRegs
    /\ out = ZeroVec

NextAtan2 == Atan2

SpecAtan2 == InitAtan2 /\ [][NextAtan2]_vars

\* v with the sign bit of y
WithSignOf(v, y) == W(y.s, v.e, v.m)

\* vector_atan(y / x) as vector_atan2 computed it in the call a state
\* records
Atan2Value == vector_atan(backend, mm_div_ps(in0, in1), in2)

\* C15: on the SSE2 path vector_atan2(y, x) is, per lane, 0 when x = 0 and
\* y = 0, pi/2 with the sign of y when x = 0 and y # 0, atan(y/x) plus a zero
\* offset when x > 0, atan(y/x) plus pi with the sign of y when x < 0; where
\* x = 0 the quotient and its arc-tangent do not reach the result.
C15_Atan2Quadrants ==
    (op = "vector_atan2" /\ RTM_SSE2_INTRINSICS(backend)) =>
      \A i \in Lanes :
        LET y == in0[i]
            x == in1[i]
            atan_yx == Atan2Value[i]
        IN /\ (FEq(x, PosZero) /\ FEq(y, PosZero)) => out[i] = PosZero
           /\ (FEq(x, PosZero) /\ ~FEq(y, PosZero)) => out[i] = WithSignOf(HalfPi, y)
           /\ FGt(x, PosZero) => SameFloat(out[i], FAdd(atan_yx, PosZero))
           /\ FLt(x, PosZero) => SameFloat(out[i], FAdd(atan_yx, WithSignOf(Pi, y)))

\* y = (-3, 1, -3, 1), x = (0, -1, 0, -1): -pi/2 where x is zero although
\* atan(y/x) is NaN there, and atan(-1) + pi in the other lanes
C15_Witness ==
    /\ op = "vector_atan2"
    /\ backend = "sse2"
    /\ in0 = <<IntToFloat(0 - 3), One, IntToFloat(0 - 3), One>>
    /\ in1 = <<NegZero, NegOne, NegZero, NegOne>>
    /\ IsNaN(Atan2Value[1])
    /\ out[1] = FNeg(HalfPi)
    /\ FGt(out[2], HalfPi) /\ FLt(out[2], Pi)

\* ---------------------------------------------------------------------
\* vector_sin, vector_cos, vector_copy_sign, vector_tan
\* ---------------------------------------------------------------------

TwoPi == W(0, 129, 4788187)
\* 1.0F / 6.283185307179586476925286766559005768F
InvTwoPi == FDiv(One, TwoPi)

SinC0 == W(1, 101, 5025670)
SinC1 == W(0, 108, 3715501)
SinC2 == W(1, 114, 5245874)
SinC3 == W(0, 120, 559237)
SinC4 == W(1, 124, 2796203)

CosC0 == W(1, 105, 777489)
CosC1 == W(0, 111, 5223618)
CosC2 == W(1, 117, 3541418)
CosC3 == W(0, 122, 2796195)
CosC4 == W(1, 126, 0)

\* scalar_sin(x) (scalar_trigonometry header): the range reduction and the
\* polynomial of vector_sin on one lane
scalar_sin(input) ==
    The({The({The({The({The({The({The({The({
    The({The({
      FMul(r4, x)
      : r4 \in {FAdd(FMul(r3, x2), One)}})
      : r3 \in {FAdd(FMul(r2, x2), SinC4)}})
      : r2 \in {FAdd(FMul(r1, x2), SinC3)}})
      : r1 \in {FAdd(FMul(r0, x2), SinC2)}})
      : r0 \in {FAdd(FMul(x2, SinC0), SinC1)}})
      : x2 \in {FMul(x, x)}})
      : x \in {IF FLe(W(0, x0.e, x0.m), HalfPi) THEN x0 ELSE reflection}})
      : reflection \in {FSub(W(x0.s, Pi.e, Pi.m), x0)}})
      : x0 \in {FSub(input, quotient)}})
      : quotient \in {FMul(scalar_round_bankers(FMul(input, InvTwoPi)), TwoPi)}})

\* scalar_cos(x) (scalar_trigonometry header): the range reduction and the
\* polynomial of vector_cos on one lane
scalar_cos(input) ==
    The({The({The({The({The({The({The({The({
    The({The({The({
      IF is_less_equal_than_half_pi THEN r4 ELSE W(1, r4.e, r4.m)
      : r4 \in {FAdd(FMul(r3, x2), One)}})
      : r3 \in {FAdd(FMul(r2, x2), CosC4)}})
      : r2 \in {FAdd(FMul(r1, x2), CosC3)}})
      : r1 \in {FAdd(FMul(r0, x2), CosC2)}})
      : r0 \in {FAdd(FMul(x2, CosC0), CosC1)}})
      : x2 \in {FMul(x, x)}})
      : x \in {IF is_less_equal_than_half_pi THEN x0 ELSE reflection}})
      : is_less_equal_than_half_pi \in {FLe(W(0, x0.e, x0.m), HalfPi)}})
      : reflection \in {FSub(W(x0.s, Pi.e, Pi.m), x0)}})
      : x0 \in {FSub(input, quotient)}})
      : quotient \in {FMul(scalar_round_bankers(FMul(input, InvTwoPi)), TwoPi)}})

\* The absolute error allowed to a cosine: 2^-17, below the 1e-5 of the
\* tolerance table
CosTolerance == W(0, 110, 0)

\* scalar_cos is not part of this header: any value within the tolerance is
\* one it can return, and where the polynomial's cosine is itself within the
\* tolerance of zero that includes a zero of either sign
CosZeroChoices == {"polynomial", "positive_zero", "negative_zero"}
scalar_cos_result(input, choice) ==
    The({IF choice # "polynomial" /\ FLe(W(0, value.e, value.m), CosTolerance)
         THEN (IF choice = "positive_zero" THEN PosZero ELSE NegZero)
         ELSE value
         : value \in {scalar_cos(input)}})

\* x of vector_sin after "Remap our input in the [-pi, pi] range"
vector_sin_x(b, input) ==
    The({The({The({
      mm_sub_ps(input, quotient)
      : quotient \in {mm_mul_ps(quotient1, mm_set_ps1(TwoPi))}})
      : quotient1 \in {vector_round_bankers(b, quotient0)}})
      : quotient0 \in {mm_mul_ps(input, mm_set_ps1(InvTwoPi))}})

\* is_less_equal_than_half_pi of vector_sin
vector_sin_is_less_equal_than_half_pi(b, input) ==
    The({The({
      mm_cmp_ps("less_equal", x_abs, mm_set_ps1(HalfPi))
      : x_abs \in {mm_and_ps(x0, mm_castsi128_ps(
                     mm_set_epi32(INT32_7FFFFFFF, INT32_7FFFFFFF, INT32_7FFFFFFF, INT32_7FFFFFFF)))}})
      : x0 \in {vector_sin_x(b, input)}})

\* x of vector_sin after "Remap our input in the [-pi/2, pi/2] range"
vector_sin_argument(b, input) ==
    The({The({The({The({The({
      IF RTM_AVX_INTRINSICS(b)
      THEN mm_blendv_ps(reflection, x0, is_less_equal_than_half_pi)
      ELSE mm_or_ps(mm_andnot_ps(is_less_equal_than_half_pi, reflection),
                    mm_and_ps(x0, is_less_equal_than_half_pi))
      : is_less_equal_than_half_pi \in {vector_sin_is_less_equal_than_half_pi(b, input)}})
      : reflection \in {mm_sub_ps(reference, x0)}})
      : reference \in {mm_or_ps(sign, mm_set_ps1(Pi))}})
      : sign \in {mm_and_ps(x0, mm_set_ps(NegZero, NegZero, NegZero, NegZero))}})
      : x0 \in {vector_sin_x(b, input)}})

\* x of vector_cos after "Remap our input in the [-pi, pi] range"
vector_cos_x(b, input) ==
    The({The({The({
      mm_sub_ps(input, quotient)
      : quotient \in {mm_mul_ps(quotient1, mm_set_ps1(TwoPi))}})
      : quotient1 \in {vector_round_bankers(b, quotient0)}})
      : quotient0 \in {mm_mul_ps(input, mm_set_ps1(InvTwoPi))}})

\* is_less_equal_than_half_pi of vector_cos
vector_cos_is_less_equal_than_half_pi(b, input) ==
    The({The({
      mm_cmp_ps("less_equal", x_abs, mm_set_ps1(HalfPi))
      : x_abs \in {mm_and_ps(x0, mm_castsi128_ps(
                     mm_set_epi32(INT32_7FFFFFFF, INT32_7FFFFFFF, INT32_7FFFFFFF, INT32_7FFFFFFF)))}})
      : x0 \in {vector_cos_x(b, input)}})

\* x of vector_cos after "Remap our input in the [-pi/2, pi/2] range"
vector_cos_argument(b, input) ==
    The({The({The({The({The({
      IF RTM_AVX_INTRINSICS(b)
      THEN mm_blendv_ps(reflection, x0, is_less_equal_than_half_pi)
      ELSE mm_or_ps(mm_andnot_ps(is_less_equal_than_half_pi, reflection),
                    mm_and_ps(x0, is_less_equal_than_half_pi))
      : is_less_equal_than_half_pi \in {vector_cos_is_less_equal_than_half_pi(b, input)}})
      : reflection \in {mm_sub_ps(reference, x0)}})
      : reference \in {mm_or_ps(x_sign, mm_set_ps1(Pi))}})
      : x_sign \in {mm_and_ps(x0, mm_set_ps(NegZero, NegZero, NegZero, NegZero))}})
      : x0 \in {vector_cos_x(b, input)}})

\* The polynomial of vector_sin ("Calculate our value")
vector_sin_polynomial(x) ==
    The({The({The({The({The({The({
      mm_mul_ps(r4, x)
      : r4 \in {mm_add_ps(mm_mul_ps(r3, x2), mm_set_ps1(One))}})
      : r3 \in {mm_add_ps(mm_mul_ps(r2, x2), mm_set_ps1(SinC4))}})
      : r2 \in {mm_add_ps(mm_mul_ps(r1, x2), mm_set_ps1(SinC3))}})
      : r1 \in {mm_add_ps(mm_mul_ps(r0, x2), mm_set_ps1(SinC2))}})
      : r0 \in {mm_add_ps(mm_mul_ps(x2, mm_set_ps1(SinC0)), mm_set_ps1(SinC1))}})
      : x2 \in {mm_mul_ps(x, x)}})

\* The polynomial of vector_cos ("Calculate our value")
vector_cos_polynomial(x) ==
    The({The({The({The({The({The({
      r4
      : r4 \in {mm_add_ps(mm_mul_ps(r3, x2), mm_set_ps1(One))}})
      : r3 \in {mm_add_ps(mm_mul_ps(r2, x2), mm_set_ps1(CosC4))}})
      : r2 \in {mm_add_ps(mm_mul_ps(r1, x2), mm_set_ps1(CosC3))}})
      : r1 \in {mm_add_ps(mm_mul_ps(r0, x2), mm_set_ps1(CosC2))}})
      : r0 \in {mm_add_ps(mm_mul_ps(x2, mm_set_ps1(CosC0)), mm_set_ps1(CosC1))}})
      : x2 \in {mm_mul_ps(x, x)}})

\* Mutation of vector_cos: the polynomial is returned as it is in every lane
vector_cos_unsigned(b, input, choice) ==
    IF RTM_SSE2_INTRINSICS(b) THEN vector_cos_polynomial(vector_cos_argument(b, input))
    ELSE vector_set(scalar_cos_result(vector_get_x(b, input), choice),
                    scalar_cos_result(vector_get_y(b, input), choice),
                    scalar_cos_result(vector_get_z(b, input), choice),
                    scalar_cos_result(vector_get_w(b, input), choice))

vector_sin(b, input) ==
    IF RTM_SSE2_INTRINSICS(b) THEN
      LET sign_mask == mm_set_ps(NegZero, NegZero, NegZero, NegZero)
          abs_mask == mm_set_epi32(INT32_7FFFFFFF, INT32_7FFFFFFF, INT32_7FFFFFFF, INT32_7FFFFFFF)
      IN The({The({The({The({The({The({The({The({
         The({The({The({The({The({The({The({The({
           mm_mul_ps(r4, x)
           : r4 \in {mm_add_ps(mm_mul_ps(r3, x2), mm_set_ps1(One))}})
           : r3 \in {mm_add_ps(mm_mul_ps(r2, x2), mm_set_ps1(SinC4))}})
           : r2 \in {mm_add_ps(mm_mul_ps(r1, x2), mm_set_ps1(SinC3))}})
           : r1 \in {mm_add_ps(mm_mul_ps(r0, x2), mm_set_ps1(SinC2))}})
           : r0 \in {mm_add_ps(mm_mul_ps(x2, mm_set_ps1(SinC0)), mm_set_ps1(SinC1))}})
           : x2 \in {mm_mul_ps(x, x)}})
           : x \in {IF RTM_AVX_INTRINSICS(b)
                    THEN mm_blendv_ps(reflection, x0, is_less_equal_than_half_pi)
                    ELSE mm_or_ps(mm_andnot_ps(is_less_equal_than_half_pi, reflection),
                    mm_and_ps(x0, is_less_equal_than_half_pi))}})
           : is_less_equal_than_half_pi \in {mm_cmp_ps("less_equal", x_abs, mm_set_ps1(HalfPi))}})
           : x_abs \in {mm_and_ps(x0, mm_castsi128_ps(abs_mask))}})
           : reflection \in {mm_sub_ps(reference, x0)}})
           : reference \in {mm_or_ps(sign, mm_set_ps1(Pi))}})
           : sign \in {mm_and_ps(x0, sign_mask)}})
           : x0 \in {mm_sub_ps(input, quotient)}})
           : quotient \in {mm_mul_ps(quotient1, mm_set_ps1(TwoPi))}})
           : quotient1 \in {vector_round_bankers(b, quotient0)}})
           : quotient0 \in {mm_mul_ps(input, mm_set_ps1(InvTwoPi))}})
    ELSE vector_set(scalar_sin(vector_get_x(b, input)), scalar_sin(vector_get_y(b, input)),
                    scalar_sin(vector_get_z(b, input)), scalar_sin(vector_get_w(b, input)))

\* vector_cos; choice is what scalar_cos returns near a zero of the cosine,
\* read on the builds without SSE2 only
vector_cos(b, input, choice) ==
    IF RTM_SSE2_INTRINSICS(b) THEN
      LET sign_mask == mm_set_ps(NegZero, NegZero, NegZero, NegZero)
          abs_mask == mm_set_epi32(INT32_7FFFFFFF, INT32_7FFFFFFF, INT32_7FFFFFFF, INT32_7FFFFFFF)
      IN The({The({The({The({The({The({The({The({
         The({The({The({The({The({The({The({The({
           mm_or_ps(r4, mm_andnot_ps(is_less_equal_than_half_pi, sign_mask))
           : r4 \in {mm_add_ps(mm_mul_ps(r3, x2), mm_set_ps1(One))}})
           : r3 \in {mm_add_ps(mm_mul_ps(r2, x2), mm_set_ps1(CosC4))}})
           : r2 \in {mm_add_ps(mm_mul_ps(r1, x2), mm_set_ps1(CosC3))}})
           : r1 \in {mm_add_ps(mm_mul_ps(r0, x2), mm_set_ps1(CosC2))}})
           : r0 \in {mm_add_ps(mm_mul_ps(x2, mm_set_ps1(CosC0)), mm_set_ps1(CosC1))}})
           : x2 \in {mm_mul_ps(x, x)}})
           : x \in {IF RTM_AVX_INTRINSICS(b)
                    THEN mm_blendv_ps(reflection, x0, is_less_equal_than_half_pi)
                    ELSE mm_or_ps(mm_andnot_ps(is_less_equal_than_half_pi, reflection),
                    mm_and_ps(x0, is_less_equal_than_half_pi))}})
           : is_less_equal_than_half_pi \in {mm_cmp_ps("less_equal", x_abs, mm_set_ps1(HalfPi))}})
           : x_abs \in {mm_and_ps(x0, mm_castsi128_ps(abs_mask))}})
           : reflection \in {mm_sub_ps(reference, x0)}})
           : reference \in {mm_or_ps(x_sign, mm_set_ps1(Pi))}})
           : x_sign \in {mm_and_ps(x0, sign_mask)}})
           : x0 \in {mm_sub_ps(input, quotient)}})
           : quotient \in {mm_mul_ps(quotient1, mm_set_ps1(TwoPi))}})
           : quotient1 \in {vector_round_bankers(b, quotient0)}})
           : quotient0 \in {mm_mul_ps(input, mm_set_ps1(InvTwoPi))}})
    ELSE vector_set(scalar_cos_result(vector_get_x(b, input), choice),
                    scalar_cos_result(vector_get_y(b, input), choice),
                    scalar_cos_result(vector_get_z(b, input), choice),
                    scalar_cos_result(vector_get_w(b, input), choice))

\* std::copysign(x, s)
copysign(x, s) == W(s.s, x.e, x.m)

vector_equal(b, lhs, rhs) == vector_compare("equal", b, lhs, rhs)

vector_copy_sign(b, input, control_sign) ==
    IF RTM_SSE2_INTRINSICS(b) THEN
      LET sign_bit == mm_set_ps1(NegZero)
          signs == mm_and_ps(sign_bit, control_sign)
          abs_input == mm_andnot_ps(sign_bit, input)
      IN mm_or_ps(abs_input, signs)
    ELSE vector_set(copysign(vector_get_x(b, input), vector_get_x(b, control_sign)),
                    copysign(vector_get_y(b, input), vector_get_y(b, control_sign)),
                    copysign(vector_get_z(b, input), vector_get_z(b, control_sign)),
                    copysign(vector_get_w(b, input), vector_get_w(b, control_sign)))

\* Mutation of vector_tan: the quotient is returned in every lane
vector_tan_unguarded(b, angle, choice) ==
    vector_div(b, vector_sin(b, angle), vector_cos(b, angle, choice))

vector_tan(b, angle, choice) ==
    The({The({The({The({The({
      vector_select(b, is_cos_zero, signed_infinity, result)
      : result \in {vector_div(b, sin_, cos_)}})
      : signed_infinity \in {vector_copy_sign(b, vector_set1(PosInf), angle)}})
      : is_cos_zero \in {vector_equal(b, cos_, vector_zero)}})
      : cos_ \in {vector_cos(b, angle, choice)}})
      : sin_ \in {vector_sin(b, angle)}})

HalfPiBelow == W(0, 127, 4788186)
ThreeHalfPi == W(0, 129, 1493988)

\* Angles: zeros, ordinary values, the floats around pi/2 and 3pi/2, a
\* denormal, an infinity and a NaN
TanLanes ==
    {PosZero, NegZero, One, NegOne, IntToFloat(2), IntToFloat(0 - 3), IntToFloat(100),
     HalfPi, FNeg(HalfPi), HalfPiBelow, ThreeHalfPi, FNeg(ThreeHalfPi), MinDenormal, PosInf, QNaN}

\* The values scalar_cos can return inside vector_cos
TanCosChoices(b) == IF RTM_SSE2_INTRINSICS(b) THEN {"polynomial"} ELSE CosZeroChoices

\* variant records what scalar_cos returned near a zero of the cosine
Tan ==
    /\ op = "init"
    /\ \E a1 \in TanLanes, a2 \in {HalfPi, NegOne}, choice \in TanCosChoices(backend) :
         \E angle \in {<<a1, a2, a2, a1>>} :
           Call("vector_tan", choice, angle, ZeroVec, ZeroVec, PosZero, NoSel,
                vector_tan(backend, angle, choice), FALSE)

InitTan ==
    /\ backend \in Backends
    /\ InitRegs
    /\ out = ZeroVec

NextTan == Tan

SpecTan == InitTan /\ [][NextTan]_vars

\* sin_ and cos_ as vector_tan computed them in the call a state records
TanSin == vector_sin(backend, in0)
TanCos == vector_cos(backend, in0, variant)

\* C16: per lane vector_tan(angle) is the quotient vector_div(sin_, cos_)
\* where the computed cosine is not zero, and where the computed cosine is
\* +0 or -0 it is the infinity that carries the sign bit of the angle.
C16_TanZeroCosine ==
    op = "vector_tan" =>
      \A i \in Lanes :
        /\ FEq(TanCos[i], PosZero) => out[i] = W(in0[i].s, 255, 0)
        /\ ~FEq(TanCos[i], PosZero) => out[i] = vector_div(backend, TanSin, TanCos)[i]

\* angle = (-pi/2, -1, -1, -pi/2) where scalar_cos returns -0 at -pi/2: the
\* quotient there is +infinity and the result is -infinity, the sign of the
\* angle; the lanes at -1 hold the quotient tan(-1)
C16_Witness ==
    /\ op = "vector_tan"
    /\ backend = "scalar"
    /\ in0 = <<FNeg(HalfPi), NegOne, NegOne, FNeg(HalfPi)>>
    /\ variant = "negative_zero"
    /\ TanCos[1] = NegZero
    /\ FDiv(TanSin[1], TanCos[1]) = PosInf
    /\ out[1] = NegInf
    /\ out[2] = FDiv(TanSin[2], TanCos[2])
    /\ FLt(out[2], NegOne) /\ FGt(out[2], IntToFloat(0 - 2))

\* ---------------------------------------------------------------------
\* vector_cross3
\* ---------------------------------------------------------------------

\* vector_set(x, y, z) (three arguments): the w lane is zero
vector_set3(x, y, z) == <<x, y, z, PosZero>>

\* Mutation of vector_cross3: the SSE2 path returns tmp_zxy without the
\* closing shuffle
vector_cross3_unshuffled(b, lhs, rhs) ==
    IF RTM_SSE2_INTRINSICS(b) THEN
      LET lhs_yzx == mm_shuffle_ps(lhs, lhs, MM_SHUFFLE(3, 0, 2, 1))
          rhs_yzx == mm_shuffle_ps(rhs, rhs, MM_SHUFFLE(3, 0, 2, 1))
      IN mm_sub_ps(mm_mul_ps(lhs, rhs_yzx), mm_mul_ps(lhs_yzx, rhs))
    ELSE vector_set3(FSub(FMul(lhs[2], rhs[3]), FMul(lhs[3], rhs[2])),
                     FSub(FMul(lhs[3], rhs[1]), FMul(lhs[1], rhs[3])),
                     FSub(FMul(lhs[1], rhs[2]), FMul(lhs[2], rhs[1])))

\* Mutation of vector_cross3: the two products of lane y are exchanged
vector_cross3_flipped_y(b, lhs, rhs) ==
    vector_set3(FSub(FMul(lhs[2], rhs[3]), FMul(lhs[3], rhs[2])),
                FSub(FMul(lhs[1], rhs[3]), FMul(lhs[3], rhs[1])),
                FSub(FMul(lhs[1], rhs[2]), FMul(lhs[2], rhs[1])))

vector_cross3(b, lhs, rhs) ==
    IF RTM_SSE2_INTRINSICS(b) THEN
      LET lhs_yzx == mm_shuffle_ps(lhs, lhs, MM_SHUFFLE(3, 0, 2, 1))
          rhs_yzx == mm_shuffle_ps(rhs, rhs, MM_SHUFFLE(3, 0, 2, 1))
          tmp_zxy == mm_sub_ps(mm_mul_ps(lhs, rhs_yzx), mm_mul_ps(lhs_yzx, rhs))
      IN mm_shuffle_ps(tmp_zxy, tmp_zxy, MM_SHUFFLE(3, 0, 2, 1))
    ELSE LET lhs_x == vector_get_x(b, lhs)
             lhs_y == vector_get_y(b, lhs)
             lhs_z == vector_get_z(b, lhs)
             rhs_x == vector_get_x(b, rhs)
             rhs_y == vector_get_y(b, rhs)
             rhs_z == vector_get_z(b, rhs)
         IN vector_set3(FSub(FMul(lhs_y, rhs_z), FMul(lhs_z, rhs_y)),
                        FSub(FMul(lhs_z, rhs_x), FMul(lhs_x, rhs_z)),
                        FSub(FMul(lhs_x, rhs_y), FMul(lhs_y, rhs_x)))

\* Lane values -1..CrossMax: every product and difference is exact
CrossMax == 1
CrossInts == (0 - 1)..CrossMax
CrossLanes == {IntToFloat(i) : i \in CrossInts}

\* The w lanes do not take part: one is a NaN, the other 3
Cross3 ==
    /\ op = "init"
    /\ \E ax \in CrossLanes, ay \in CrossLanes, az \in CrossLanes,
          bx \in CrossLanes, by \in CrossLanes, bz \in CrossLanes :
         LET lhs == <<ax, ay, az, QNaN>>
             rhs == <<bx, by, bz, IntToFloat(3)>>
         IN Call("vector_cross3", "none", lhs, rhs, ZeroVec, PosZero, NoSel,
                 vector_cross3(backend, lhs, rhs), FALSE)

InitCross ==
    /\ backend \in Backends
    /\ InitRegs
    /\ out = ZeroVec

NextCross == Cross3

SpecCross == InitCross /\ [][NextCross]_vars

\* The integer a lane of CrossLanes stands for
CrossInt(w) == CHOOSE i \in CrossInts : FEq(IntToFloat(i), w)

\* ay*bz - az*by, az*bx - ax*bz, ax*by - ay*bx over the integers
ExactCross3(lhs, rhs) ==
    LET a == [i \in 1..3 |-> CrossInt(lhs[i])]
        b == [i \in 1..3 |-> CrossInt(rhs[i])]
    IN << a[2] * b[3] - a[3] * b[2], a[3] * b[1] - a[1] * b[3], a[1] * b[2] - a[2] * b[1] >>

\* C17: on every build the x, y, z lanes of vector_cross3(a, b) are, bit for
\* bit, those of the SSE2 shuffle derivation and those of the portable
\* derivation, and their values are ay*bz - az*by, az*bx - ax*bz and
\* ax*by - ay*bx.
C17_Cross3Derivations ==
    op = "vector_cross3" =>
      \A i \in 1..3 :
        /\ out[i] = vector_cross3("sse2", in0, in1)[i]
        /\ out[i] = vector_cross3("scalar", in0, in1)[i]
        /\ FEq(out[i], IntToFloat(ExactCross3(in0, in1)[i]))

\* cross3((1, 0, 0), (0, 1, 0)) = (0, 0, 1) on an SSE2 build
C17_Witness ==
    /\ op = "vector_cross3"
    /\ backend = "sse2"
    /\ in0 = <<One, PosZero, PosZero, QNaN>>
    /\ in1 = <<PosZero, One, PosZero, IntToFloat(3)>>
    /\ out[1] = PosZero /\ out[2] = PosZero /\ out[3] = One

\* ---------------------------------------------------------------------
\* vector_max, vector_min, vector_clamp
\* ---------------------------------------------------------------------

\* maxps / minps: the second operand when either lane is a NaN or both are
\* zeros
mm_max_ps(a, b) == Vec4(LAMBDA i: IF FGt(a[i], b[i]) THEN a[i] ELSE b[i])
mm_min_ps(a, b) == Vec4(LAMBDA i: IF FLt(a[i], b[i]) THEN a[i] ELSE b[i])

\* FMAX / FMIN: a NaN operand is returned quieted, +0 is above -0
FPMax(x, y) ==
    IF IsNaN(x) THEN Quiet(x)
    ELSE IF IsNaN(y) THEN Quiet(y)
    ELSE IF IsZero(x) /\ IsZero(y) THEN W(IF x.s = 1 /\ y.s = 1 THEN 1 ELSE 0, 0, 0)
    ELSE IF FGt(x, y) THEN x ELSE y
FPMin(x, y) ==
    IF IsNaN(x) THEN Quiet(x)
    ELSE IF IsNaN(y) THEN Quiet(y)
    ELSE IF IsZero(x) /\ IsZero(y) THEN W(IF x.s = 1 \/ y.s = 1 THEN 1 ELSE 0, 0, 0)
    ELSE IF FLt(x, y) THEN x ELSE y
vmaxq_f32(a, b) == Vec4(LAMBDA i: FPMax(a[i], b[i]))
vminq_f32(a, b) == Vec4(LAMBDA i: FPMin(a[i], b[i]))

\* scalar_max, scalar_min (scalarf header): a conditional on one comparison
scalar_max(left, right) == IF FGt(left, right) THEN left ELSE right
scalar_min(left, right) == IF FLt(left, right) THEN left ELSE right

vector_max(b, lhs, rhs) ==
    IF RTM_SSE2_INTRINSICS(b) THEN mm_max_ps(lhs, rhs)
    ELSE IF RTM_NEON_INTRINSICS(b) THEN vmaxq_f32(lhs, rhs)
    ELSE vector_set(scalar_max(lhs[1], rhs[1]), scalar_max(lhs[2], rhs[2]),
                    scalar_max(lhs[3], rhs[3]), scalar_max(lhs[4], rhs[4]))

vector_min(b, lhs, rhs) ==
    IF RTM_SSE2_INTRINSICS(b) THEN mm_min_ps(lhs, rhs)
    ELSE IF RTM_NEON_INTRINSICS(b) THEN vminq_f32(lhs, rhs)
    ELSE vector_set(scalar_min(lhs[1], rhs[1]), scalar_min(lhs[2], rhs[2]),
                    scalar_min(lhs[3], rhs[3]), scalar_min(lhs[4], rhs[4]))

\* Mutation of vector_clamp: the bounds are applied in the other order
vector_clamp_max_last(b, input, min_value, max_value) ==
    vector_max(b, min_value, vector_min(b, max_value, input))

vector_clamp(b, input, min_value, max_value) ==
    vector_min(b, max_value, vector_max(b, min_value, input))

ClampLanes == {PosZero, NegZero, One, NegOne, IntToFloat(2), MinDenormal, PosInf, NegInf, QNaN}

\* in0 = input, in1 = min_value, in2 = max_value
Clamp ==
    /\ op = "init"
    /\ \E i1 \in ClampLanes, i2 \in {Half, QNaN}, lo \in ClampLanes, hi \in ClampLanes :
         LET input == <<i1, i2, i2, i1>>
             min_value == vector_set1(lo)
             max_value == vector_set1(hi)
         IN Call("vector_clamp", "none", input, min_value, max_value, PosZero, NoSel,
                 vector_clamp(backend, input, min_value, max_value), FALSE)

InitClamp ==
    /\ backend \in Backends
    /\ InitRegs
    /\ out = ZeroVec

NextClamp == Clamp

SpecClamp == InitClamp /\ [][NextClamp]_vars

\* The consequences the claim draws for one lane
ClampLaneOk(input, lo, hi, result) ==
    /\ FLe(lo, hi) => /\ FLe(lo, result) /\ FLe(result, hi)
                      /\ (FLe(lo, input) /\ FLe(input, hi)) => FEq(result, input)
    /\ FGt(lo, hi) => result = hi

\* C18 as stated: vector_clamp is min(max_value, max(min_value, input)) lane
\* by lane; with min_value <= max_value the result lies in [min_value,
\* max_value] and equals the input when that lies in the interval; with
\* min_value > max_value the result is max_value.
C18_ClampInterval ==
    op = "vector_clamp" =>
      /\ out = vector_min(backend, in2, vector_max(backend, in1, in0))
      /\ \A i \in Lanes : ClampLaneOk(in0[i], in1[i], in2[i], out[i])

\* C18 amended: the same for every lane whose input is not a NaN; a NaN
\* input lane comes back as a NaN whatever the bounds are.
C18_ClampIntervalOrdered ==
    op = "vector_clamp" =>
      /\ out = vector_min(backend, in2, vector_max(backend, in1, in0))
      /\ \A i \in Lanes :
           /\ ~IsNaN(in0[i]) => ClampLaneOk(in0[i], in1[i], in2[i], out[i])
           /\ IsNaN(in0[i]) => IsNaN(out[i])

\* input = (2, 0.5, 0.5, 2) clamped to [-1, 1] gives (1, 0.5, 0.5, 1)
C18_Witness ==
    /\ op = "vector_clamp"
    /\ in0 = <<IntToFloat(2), Half, Half, IntToFloat(2)>>
    /\ in1 = vector_set1(NegOne)
    /\ in2 = vector_set1(One)
    /\ out = <<One, Half, Half, One>>

\* ---------------------------------------------------------------------
\* vector_reciprocal and vector_div across the builds
\* ---------------------------------------------------------------------

MinNormal == W(0, 1, 0)
HalfMinNormal == W(0, 0, 4194304)

\* Finite lanes: zeros, values with short and full mantissas, denormals,
\* the smallest normal and the largest float
ReciprocalLanes ==
    {PosZero, NegZero, One, NegOne, Half, IntToFloat(3), IntToFloat(100), OnePointTwo,
     FNeg(ThreePointFive), TwoTo23PlusOne, MinDenormal, HalfMinNormal, MinNormal,
     MaxFloat, FNeg(MaxFloat)}

DivNumerators == {PosZero, One, IntToFloat(0 - 3), OnePointTwo, MinDenormal, MaxFloat}

\* The values _mm_rcp_ps(input) can return inside vector_reciprocal
ReciprocalRcpResults(b, input) ==
    IF RTM_SSE2_INTRINSICS(b) THEN mm_rcp_ps_results(input) ELSE {ZeroVec}

Reciprocal ==
    /\ op = "init"
    /\ \E a1 \in ReciprocalLanes, a2 \in {PosZero, IntToFloat(3), MaxFloat} :
         LET input == <<a1, a2, a2, a1>>
         IN \E rcp \in ReciprocalRcpResults(backend, input) :
              Call("vector_reciprocal", "none", input, ZeroVec, ZeroVec, PosZero, NoSel,
                   vector_reciprocal(backend, input, rcp), FALSE)

Div ==
    /\ op = "init"
    /\ \E n \in DivNumerators, d \in ReciprocalLanes :
         LET lhs == <<n, One, n, One>>
             rhs == <<d, d, IntToFloat(3), IntToFloat(3)>>
         IN Call("vector_div", "none", lhs, rhs, ZeroVec, PosZero, NoSel,
                 vector_div(backend, lhs, rhs), FALSE)

InitDiv ==
    /\ backend \in Backends
    /\ InitRegs
    /\ out = ZeroVec

NextDiv == Reciprocal \/ Div

SpecDiv == InitDiv /\ [][NextDiv]_vars

\* Agreement within the 2^-23 relative tolerance: two NaNs, two zeros, the
\* same infinity, or finite values of one sign at most two units in the
\* last place apart (a relative difference of 2^-23 is below two units)
WithinTolerance(a, b) ==
    IF IsNaN(a) \/ IsNaN(b) THEN IsNaN(a) /\ IsNaN(b)
    ELSE IF IsInf(a) \/ IsInf(b) THEN a = b
    ELSE IF a.s # b.s THEN IsZero(a) /\ IsZero(b)
    ELSE Abs(Key(a) - Key(b)) <= 2

\* C19 as stated: for finite lanes vector_reciprocal agrees on every build
\* with the portable 1.0 / input within the tolerance, and vector_div on
\* the 32-bit NEON build agrees with the exact quotient.
C19_ReciprocalDivAgree ==
    /\ op = "vector_reciprocal" =>
         \A i \in Lanes : WithinTolerance(out[i], vector_reciprocal("scalar", in0, ZeroVec)[i])
    /\ (op = "vector_div" /\ backend = "neon") =>
         \A i \in Lanes : WithinTolerance(out[i], FDiv(in0[i], in1[i]))

\* vector_reciprocal((0, 3, 3, 0)) on an SSE2 build: NaN where 1.0 / 0 is
\* +infinity, and 1/3 within the tolerance in the other lanes
C19_Witness ==
    /\ op = "vector_reciprocal"
    /\ backend = "sse2"
    /\ in0 = <<PosZero, IntToFloat(3), IntToFloat(3), PosZero>>
    /\ IsNaN(out[1])
    /\ FDiv(One, in0[1]) = PosInf
    /\ WithinTolerance(out[2], FDiv(One, in0[2]))

\* ---------------------------------------------------------------------
\* rtm_impl::vector4f_vector_dot: vector_dot, vector_length_squared
\* ---------------------------------------------------------------------

\* x2_y2_z2_w2 plus its upper half moved down: lanes x and y hold
\* x2 + z2 and y2 + w2
dot_x2z2_y2w2_0_0(x2_y2_z2_w2) ==
    mm_add_ps(x2_y2_z2_w2, mm_shuffle_ps(x2_y2_z2_w2, x2_y2_z2_w2, MM_SHUFFLE(0, 0, 3, 2)))

\* x2z2_y2w2_0_0 plus its lane y moved down: lane x holds
\* (x2 + z2) + (y2 + w2)
dot_x2y2z2w2_0_0_0(x2z2_y2w2_0_0) ==
    mm_add_ps(x2z2_y2w2_0_0, mm_shuffle_ps(x2z2_y2w2_0_0, x2z2_y2w2_0_0, MM_SHUFFLE(0, 0, 0, 1)))

\* The pairwise sum of the SSE2 conversions
vector_dot_scalarf(lhs, rhs) == dot_x2y2z2w2_0_0_0(dot_x2z2_y2w2_0_0(mm_mul_ps(lhs, rhs)))

\* The default NaN of the C++ float arithmetic of a build
BuildDefaultNaN(b) == IF RTM_NEON_INTRINSICS(b) THEN ArmDefaultNaN ELSE DefaultNaN

\* (x2 + y2) + z2) + w2 of the lane products, in the float arithmetic whose
\* default NaN is dn
dot_lanes_sum(b, lhs, rhs, dn) ==
    FAddN(FAddN(FAddN(FMulN(vector_get_x(b, lhs), vector_get_x(b, rhs), dn),
                      FMulN(vector_get_y(b, lhs), vector_get_y(b, rhs), dn), dn),
                FMulN(vector_get_z(b, lhs), vector_get_z(b, rhs), dn), dn),
          FMulN(vector_get_w(b, lhs), vector_get_w(b, rhs), dn), dn)

\* operator float(): the #else branch serves the NEON and the portable
\* builds
vector_dot_float(b, lhs, rhs) ==
    IF RTM_SSE2_INTRINSICS(b) THEN mm_cvtss_f32(vector_dot_scalarf(lhs, rhs))
    ELSE dot_lanes_sum(b, lhs, rhs, BuildDefaultNaN(b))

\* The wrapper converted to scalarf: operator scalarf() on SSE2 builds,
\* operator float() elsewhere, where scalarf is float
vector_dot_as_scalarf(b, lhs, rhs) ==
    IF RTM_SSE2_INTRINSICS(b) THEN vector_dot_scalarf(lhs, rhs)
    ELSE vector_dot_float(b, lhs, rhs)

\* The NEON steps: the sum of the halves of x2_y2_z2_w2, the pairwise sum
\* of that, and the two copies of the result
dot_neon_x2z2_y2w2(x2_y2_z2_w2) == vadd_f32(vget_low_f32(x2_y2_z2_w2), vget_high_f32(x2_y2_z2_w2))
dot_neon_x2y2z2w2(x2z2_y2w2) == vpadd_f32(x2z2_y2w2, x2z2_y2w2)
dot_neon_combine(x2y2z2w2) == vcombine_f32(x2y2z2w2, x2y2z2w2)

\* Lane x of x2y2z2w2_0_0_0 in every lane
dot_splat(x2y2z2w2_0_0_0) == mm_shuffle_ps(x2y2z2w2_0_0_0, x2y2z2w2_0_0_0, MM_SHUFFLE(0, 0, 0, 0))

\* operator vector4f()
vector_dot_vector4f(b, lhs, rhs) ==
    IF RTM_SSE2_INTRINSICS(b) THEN dot_splat(vector_dot_scalarf(lhs, rhs))
    ELSE IF RTM_NEON_INTRINSICS(b) THEN dot_neon_combine(dot_neon_x2y2z2w2(dot_neon_x2z2_y2w2(vmulq_f32(lhs, rhs))))
    ELSE vector_set1(vector_dot_as_scalarf(b, lhs, rhs))

TwoToMinus12 == W(0, 115, 0)
TwoToMinus24 == W(0, 103, 0)

DotLanes == {PosZero, One, IntToFloat(0 - 3), TwoToMinus12, TwoToMinus24, MaxFloat, PosInf}
DotVectors == {<<x, y, z, w>> : x \in DotLanes, y \in DotLanes, z \in {One, TwoToMinus12, TwoToMinus24},
                                w \in {PosZero, TwoToMinus12, TwoToMinus24, QNaN}}

\* A wrapper and its three conversions: out the vector4f, scalar the float,
\* in2 the scalarf (a register on SSE2 builds, the float in every lane
\* elsewhere)
DotCall(o, lhs, rhs) ==
    \E as_scalarf \in {vector_dot_as_scalarf(backend, lhs, rhs)} :
      Call(o, "none", lhs, rhs,
           IF RTM_SSE2_INTRINSICS(backend) THEN as_scalarf ELSE vector_set1(as_scalarf),
           vector_dot_float(backend, lhs, rhs), NoSel,
           vector_dot_vector4f(backend, lhs, rhs), FALSE)

Dot ==
    /\ op = "init"
    /\ \E lhs \in DotVectors, rhs \in {vector_set1(One), <<One, NegOne, One, IntToFloat(2)>>} :
         DotCall("vector_dot", lhs, rhs)

LengthSquared ==
    /\ op = "init"
    /\ \E input \in DotVectors : DotCall("vector_length_squared", input, input)

InitDot ==
    /\ backend \in Backends
    /\ InitRegs
    /\ out = ZeroVec

NextDot == Dot \/ LengthSquared

SpecDot == InitDot /\ [][NextDot]_vars

\* C20 as stated: the vector conversion of the wrapper of vector_dot and of
\* vector_length_squared has four identical lanes, each equal to the float
\* and to the scalarf conversion of the same wrapper, on every build.
C20_DotConversionsAgree ==
    op \in {"vector_dot", "vector_length_squared"} =>
      \A i \in Lanes :
        /\ SameFloat(out[i], out[1])
        /\ SameFloat(out[i], scalar)
        /\ SameFloat(out[i], in2[1])

\* vector_dot((1, 2^-24, 2^-24, 2^-24), (1, 1, 1, 1)) on a NEON build: the
\* vector conversion is 1 + 2^-23 in every lane, the float conversion is 1
C20_Witness ==
    /\ op = "vector_dot"
    /\ backend = "neon64"
    /\ in0 = <<One, TwoToMinus24, TwoToMinus24, TwoToMinus24>>
    /\ in1 = vector_set1(One)
    /\ out = vector_set1(W(0, 127, 1))
    /\ scalar = One

\* ---------------------------------------------------------------------
\* vector_get_component and the conversions of the getter wrappers
\* ---------------------------------------------------------------------

\* operator scalarf() of the wrappers of vector_get_x/y/z/w: a register
\* whose lane x holds the component on SSE2 builds; elsewhere scalarf is
\* float and the conversion is operator float()
vector_get_x_as_scalarf(b, input) ==
    IF RTM_SSE2_INTRINSICS(b) THEN input ELSE vector_get_x(b, input)

vector_get_y_as_scalarf(b, input) ==
    IF RTM_SSE2_INTRINSICS(b) THEN mm_shuffle_ps(input, input, MM_SHUFFLE(1, 1, 1, 1))
    ELSE vector_get_y(b, input)

vector_get_z_as_scalarf(b, input) ==
    IF RTM_SSE2_INTRINSICS(b) THEN mm_shuffle_ps(input, input, MM_SHUFFLE(2, 2, 2, 2))
    ELSE vector_get_z(b, input)

vector_get_w_as_scalarf(b, input) ==
    IF RTM_SSE2_INTRINSICS(b) THEN mm_shuffle_ps(input, input, MM_SHUFFLE(3, 3, 3, 3))
    ELSE vector_get_w(b, input)

\* Mutation of vector_get_component: the selector is compared as it is
vector_get_component_unreduced(b, input, component) ==
    IF component = mix4_x THEN vector_get_x(b, input)
    ELSE IF component = mix4_y THEN vector_get_y(b, input)
    ELSE IF component = mix4_z THEN vector_get_z(b, input)
    ELSE vector_get_w(b, input)

\* vector_get_component(input, component) converted to float
vector_get_component(b, input, component) ==
    IF component % 4 = mix4_x THEN vector_get_x(b, input)
    ELSE IF component % 4 = mix4_y THEN vector_get_y(b, input)
    ELSE IF component % 4 = mix4_z THEN vector_get_z(b, input)
    ELSE vector_get_w(b, input)

\* vector_get_component(input, component) and
\* vector_get_component<component>(input) converted to scalarf: the two
\* operators have the same branches
vector_get_component_as_scalarf(b, input, component) ==
    IF component % 4 = mix4_x THEN vector_get_x_as_scalarf(b, input)
    ELSE IF component % 4 = mix4_y THEN vector_get_y_as_scalarf(b, input)
    ELSE IF component % 4 = mix4_z THEN vector_get_z_as_scalarf(b, input)
    ELSE vector_get_w_as_scalarf(b, input)

\* A scalarf as the state records it: the register on SSE2 builds, the
\* float in every lane elsewhere
ScalarfRecord(b, s) == IF RTM_SSE2_INTRINSICS(b) THEN s ELSE vector_set1(s)

GetInputs ==
    {<<One, IntToFloat(2), IntToFloat(3), IntToFloat(4)>>,
     <<NegZero, QNaN, PosInf, MinDenormal>>,
     <<IntToFloat(0 - 5), PosZero, One, One>>}

\* scalar records the float conversion, in2 the scalarf conversion and sel
\* the selector
GetComponent ==
    /\ op = "init"
    /\ \E input \in GetInputs, component \in Mix4 :
         Call("vector_get_component", "runtime", input, ZeroVec,
              ScalarfRecord(backend, vector_get_component_as_scalarf(backend, input, component)),
              vector_get_component(backend, input, component),
              <<component, component, component, component>>, ZeroVec, FALSE)

GetComponentStatic ==
    /\ op = "init"
    /\ \E input \in GetInputs, component \in Mix4 :
         Call("vector_get_component", "template", input, ZeroVec,
              ScalarfRecord(backend, vector_get_component_as_scalarf(backend, input, component)),
              vector_get_component_static(backend, component, input),
              <<component, component, component, component>>, ZeroVec, FALSE)

GetX ==
    /\ op = "init"
    /\ \E input \in GetInputs :
         Call("vector_get_x", "none", input, ZeroVec,
              ScalarfRecord(backend, vector_get_x_as_scalarf(backend, input)),
              vector_get_x(backend, input), <<mix4_x, mix4_x, mix4_x, mix4_x>>, ZeroVec, FALSE)

GetY ==
    /\ op = "init"
    /\ \E input \in GetInputs :
         Call("vector_get_y", "none", input, ZeroVec,
              ScalarfRecord(backend, vector_get_y_as_scalarf(backend, input)),
              vector_get_y(backend, input), <<mix4_y, mix4_y, mix4_y, mix4_y>>, ZeroVec, FALSE)

GetZ ==
    /\ op = "init"
    /\ \E input \in GetInputs :
         Call("vector_get_z", "none", input, ZeroVec,
              ScalarfRecord(backend, vector_get_z_as_scalarf(backend, input)),
              vector_get_z(backend, input), <<mix4_z, mix4_z, mix4_z, mix4_z>>, ZeroVec, FALSE)

GetW ==
    /\ op = "init"
    /\ \E input \in GetInputs :
         Call("vector_get_w", "none", input, ZeroVec,
              ScalarfRecord(backend, vector_get_w_as_scalarf(backend, input)),
              vector_get_w(backend, input), <<mix4_w, mix4_w, mix4_w, mix4_w>>, ZeroVec, FALSE)

InitGet ==
    /\ backend \in Backends
    /\ InitRegs
    /\ out = ZeroVec

NextGet == GetComponent \/ GetComponentStatic \/ GetX \/ GetY \/ GetZ \/ GetW

SpecGet == InitGet /\ [][NextGet]_vars

GetOps == {"vector_get_component", "vector_get_x", "vector_get_y", "vector_get_z", "vector_get_w"}

\* C21: vector_get_component(input, c) and vector_get_component<c>(input)
\* both return lane (c mod 4) of input for each of the 8 selectors, so a, b,
\* c, d read the lanes of x, y, z, w; and the float and the scalarf
\* conversion of every getter wrapper hold the same lane value.
C21_GetComponentLane ==
    op \in GetOps =>
      /\ scalar = in0[(sel[1] % 4) + 1]
      /\ in2[1] = scalar

\* The run-time selector c on (1, 2, 3, 4): lane z, 3.0, in both
\* conversions
C21_Witness ==
    /\ op = "vector_get_component"
    /\ variant = "runtime"
    /\ sel[1] = mix4_c
    /\ in0 = <<One, IntToFloat(2), IntToFloat(3), IntToFloat(4)>>
    /\ scalar = IntToFloat(3)
    /\ in2[1] = IntToFloat(3)

\* ---------------------------------------------------------------------
\* Concurrent invocations.  A thread holds its arguments and its result;
\* the heap is the only memory threads share, and a store reaches it one
\* write statement at a time.
\* ---------------------------------------------------------------------
NumThreads == 2
Threads == 1..NumThreads

ThreadOps == {"vector_add", "vector_sub", "vector_mul"}
ThreadStores == {"vector_store", "vector_store1", "vector_store2", "vector_store3"}

\* The arguments of thread t, different for every thread
ThreadLhs(t) == <<IntToFloat(t), IntToFloat(t + 4), NegZero, IntToFloat(0 - t)>>
ThreadRhs == <<Half, IntToFloat(3), QNaN, PosInf>>

\* Destination pointers: the buffers of two stores can overlap
ThreadDests == {0, 8}

\* The floats a store writes
StoreFloats(o) ==
    IF o = "vector_store" THEN 4
    ELSE IF o = "vector_store1" THEN 1
    ELSE IF o = "vector_store2" THEN 2
    ELSE 3

\* The write statements of a store: _mm_storeu_ps is one, each assignment
\* output[i] = ... is one
StoreWrites(b, o) == IF o = "vector_store" /\ RTM_SSE2_INTRINSICS(b) THEN 1 ELSE StoreFloats(o)

\* The lane output[k] receives
StoreLane(b, input, k) ==
    IF k = 0 THEN vector_get_x(b, input)
    ELSE IF k = 1 THEN vector_get_y(b, input)
    ELSE IF k = 2 THEN vector_get_z(b, input)
    ELSE vector_get_w(b, input)

\* Mutation of StoreWrite: output[k + 1] is assigned instead of output[k]
StoreWriteShifted(b, o, input, m, p, k) ==
    IF o = "vector_store" /\ RTM_SSE2_INTRINSICS(b) THEN mm_storeu_ps(m, p, input)
    ELSE WriteFloat(m, p, k + 1, StoreLane(b, input, k))

\* The heap after write statement k of the store o(input, m + p)
StoreWrite(b, o, input, m, p, k) ==
    IF o = "vector_store" /\ RTM_SSE2_INTRINSICS(b) THEN mm_storeu_ps(m, p, input)
    ELSE WriteFloat(m, p, k, StoreLane(b, input, k))

\* The value a non-store operation returns
ThreadResult(b, o, lhs, rhs) ==
    IF o = "vector_add" THEN vector_add(b, lhs, rhs)
    ELSE IF o = "vector_sub" THEN vector_sub(b, lhs, rhs)
    ELSE vector_mul(b, lhs, rhs)

\* The heap a store leaves when nothing else runs
StoreAlone(b, o, input, m, p) ==
    IF o = "vector_store" THEN vector_store(b, input, m, p)
    ELSE IF o = "vector_store1" THEN vector_store1(b, input, m, p)
    ELSE IF o = "vector_store2" THEN vector_store2(b, input, m, p)
    ELSE vector_store3(b, input, m, p)

IdleThread ==
    [pc |-> "idle", o |-> "none", lhs |-> ZeroVec, rhs |-> ZeroVec, dest |-> 0, k |-> 0, result |-> ZeroVec]

ThreadFrame == UNCHANGED <<backend, op, variant, count, in0, in1, in2, scalar, sel, out, flag, mem0, ptr>>

\* Thread t calls an operation with its own arguments
Invoke(t) ==
    /\ threads[t].pc = "idle"
    /\ \E o \in ThreadOps \cup ThreadStores, dest \in ThreadDests :
         /\ o \in ThreadOps => dest = 0
         /\ threads' = [threads EXCEPT ![t] = [pc |-> "called", o |-> o, lhs |-> ThreadLhs(t),
                                               rhs |-> ThreadRhs, dest |-> dest, k |-> 0,
                                               result |-> ZeroVec]]
    /\ UNCHANGED mem
    /\ ThreadFrame

\* A non-store operation of thread t returns
Return(t) ==
    /\ threads[t].pc = "called"
    /\ threads[t].o \in ThreadOps
    /\ threads' = [threads EXCEPT ![t].pc = "done",
                                  ![t].result = ThreadResult(backend, threads[t].o, threads[t].lhs,
                                                             threads[t].rhs)]
    /\ UNCHANGED mem
    /\ ThreadFrame

\* The store of thread t executes its next write statement
StoreStep(t) ==
    /\ threads[t].pc = "called"
    /\ threads[t].o \in ThreadStores
    /\ mem' = StoreWrite(backend, threads[t].o, threads[t].lhs, mem, threads[t].dest, threads[t].k)
    /\ threads' = [threads EXCEPT ![t].k = threads[t].k + 1,
                                  ![t].pc = IF threads[t].k + 1 = StoreWrites(backend, threads[t].o)
                                            THEN "done" ELSE "called"]
    /\ ThreadFrame

InitThreads ==
    /\ backend \in Backends
    /\ op = "init"
    /\ variant = "none"
    /\ count = 4
    /\ in0 = ZeroVec
    /\ in1 = ZeroVec
    /\ in2 = ZeroVec
    /\ scalar = PosZero
    /\ sel = NoSel
    /\ flag = FALSE
    /\ out = ZeroVec
    /\ ptr = 0
    /\ mem0 = CellBytes([i \in 1..BufLen |-> QNaN], 1)
    /\ mem = mem0
    /\ threads = [t \in Threads |-> IdleThread]

NextThreads == \E t \in Threads : Invoke(t) \/ Return(t) \/ StoreStep(t)

SpecThreads == InitThreads /\ [][NextThreads]_vars

\* The bytes of the destination buffer of a thread that called a store
DestBytes(th) ==
    IF th.o \in ThreadStores THEN (th.dest + 1)..(th.dest + SizeofFloat * StoreFloats(th.o)) ELSE {}

\* C22: under any interleaving, a non-store operation that returned holds
\* the result of its own arguments; every byte of the heap outside the
\* destination buffers of the stores called so far is as it was; and a
\* finished store whose buffer no other store overlaps left in it what it
\* writes when run alone.
C22_ThreadsIndependent ==
    /\ \A t \in Threads :
         (threads[t].pc = "done" /\ threads[t].o \in ThreadOps) =>
           threads[t].result = ThreadResult(backend, threads[t].o, ThreadLhs(t), ThreadRhs)
    /\ Len(mem) = Len(mem0)
    /\ \A i \in 1..Len(mem0) :
         (\A t \in Threads : i \notin DestBytes(threads[t])) => mem[i] = mem0[i]
    /\ \A t \in Threads :
         (/\ threads[t].pc = "done"
          /\ threads[t].o \in ThreadStores
          /\ \A u \in Threads \ {t} : DestBytes(threads[u]) \cap DestBytes(threads[t]) = {}) =>
           \A i \in DestBytes(threads[t]) :
             mem[i] = StoreAlone(backend, threads[t].o, threads[t].lhs, mem0, threads[t].dest)[i]

\* Thread 1 returned from vector_mul while thread 2 was half-way through
\* vector_store3 at byte 8: two floats written, the third and the bytes
\* before the buffer as they were
C22_Witness ==
    /\ backend = "scalar"
    /\ threads[1].pc = "done"
    /\ threads[1].o = "vector_mul"
    /\ threads[1].result = <<Half, IntToFloat(15), QNaN, NegInf>>
    /\ threads[2].pc = "called"
    /\ threads[2].o = "vector_store3"
    /\ threads[2].dest = 8
    /\ threads[2].k = 2
    /\ ReadFloat(mem, 8, 0) = IntToFloat(2)
    /\ ReadFloat(mem, 8, 1) = IntToFloat(6)
    /\ ReadFloat(mem, 8, 2) = QNaN
    /\ SubSeq(mem, 1, 8) = SubSeq(mem0, 1, 8)

\* ---------------------------------------------------------------------
\* The range reduction of vector_sin and vector_cos
\* ---------------------------------------------------------------------

\* Multiples of pi/2 up to MaxQuarterTurns of them, among them the odd
\* multiples of pi where input / 2pi is a half-integer
MaxQuarterTurns == 10
QuarterTurns == {FMul(IntToFloat(k), HalfPi) : k \in (0 - MaxQuarterTurns)..MaxQuarterTurns}

\* The float next to w, away from zero
NextAway(w) == IF w.m = 8388607 THEN W(w.s, w.e + 1, 0) ELSE W(w.s, w.e, w.m + 1)

\* Finite angles: the multiples of pi/2 and their neighbours, zeros, small
\* and large magnitudes
SinCosLanes ==
    QuarterTurns \cup {NextAway(w) : w \in QuarterTurns}
      \cup {PosZero, NegZero, One, NegOne, MinDenormal, IntToFloat(100), IntToFloat(0 - 100),
            IntToFloat(1000), TwoTo23, FNeg(TwoTo23), MaxFloat, FNeg(MaxFloat)}

Sin ==
    /\ op = "init"
    /\ \E a1 \in SinCosLanes, a2 \in {One, FNeg(Pi)} :
         \E input \in {<<a1, a2, a2, a1>>, <<a1, a2, a2, MaxFloat>>} :
           Call("vector_sin", "none", input, ZeroVec, ZeroVec, PosZero, NoSel,
                vector_sin(backend, input), FALSE)

\* variant records what scalar_cos returned near a zero of the cosine
Cos ==
    /\ op = "init"
    /\ \E a1 \in SinCosLanes, a2 \in {One, FNeg(Pi)}, choice \in TanCosChoices(backend) :
         \E input \in {<<a1, a2, a2, a1>>, <<a1, a2, a2, MaxFloat>>} :
           Call("vector_cos", choice, input, ZeroVec, ZeroVec, PosZero, NoSel,
                vector_cos(backend, input, choice), FALSE)

InitSinCos ==
    /\ backend \in Backends
    /\ InitRegs
    /\ out = ZeroVec

NextSinCos == Sin \/ Cos

SpecSinCos == InitSinCos /\ [][NextSinCos]_vars

\* x and the polynomial's argument of the call a state records
SinCosX ==
    IF op = "vector_sin" THEN vector_sin_x(backend, in0) ELSE vector_cos_x(backend, in0)
SinCosArgument ==
    IF op = "vector_sin" THEN vector_sin_argument(backend, in0)
    ELSE vector_cos_argument(backend, in0)

\* C24: on the SSE2 path, for every finite input lane, x lies in [-pi, pi]
\* and the argument of the polynomial lies in [-pi/2, pi/2].
C24_RangeReduction ==
    (RTM_SSE2_INTRINSICS(backend) /\ op \in {"vector_sin", "vector_cos"}) =>
      \A x \in {SinCosX}, argument \in {SinCosArgument} :
        \A i \in Lanes :
          IsFinite(in0[i]) =>
            /\ FLe(FNeg(Pi), x[i]) /\ FLe(x[i], Pi)
            /\ FLe(FNeg(HalfPi), argument[i]) /\ FLe(argument[i], HalfPi)

\* sin(3pi, 1, 1, FLT_MAX) on SSE2: the quotient 1.5 of the first lane
\* rounds to 2 and x is the float below -pi; x of the last lane is 2^104
\* and its sine is returned as +Infinity
C24_Witness ==
    /\ op = "vector_sin"
    /\ backend = "sse2"
    /\ in0 = <<FMul(IntToFloat(6), HalfPi), One, One, MaxFloat>>
    /\ SinCosX[1] = FNeg(NextAway(Pi))
    /\ SinCosX[4] = W(0, 231, 0)
    /\ SinCosArgument[4] = W(1, 231, 0)
    /\ out[4] = PosInf

\* is_less_equal_than_half_pi of the call a state records
SinCosIsLessEqualThanHalfPi ==
    IF op = "vector_sin" THEN vector_sin_is_less_equal_than_half_pi(backend, in0)
    ELSE vector_cos_is_less_equal_than_half_pi(backend, in0)

\* The polynomial of the called function at the argument x
SinCosPolynomialAt(x) ==
    IF op = "vector_sin" THEN vector_sin_polynomial(x) ELSE vector_cos_polynomial(x)
SinCosPolynomial == SinCosPolynomialAt(SinCosArgument)

\* A lane is reflected when |x| exceeds pi/2
Reflected(x) == ~FLe(W(0, x.e, x.m), HalfPi)
SinCosReflected(i) == Reflected(SinCosX[i])

\* The argument of the polynomial is x, or pi * sign(x) - x in a reflected
\* lane
ArgumentIsReflection(x, mask, argument) ==
    \A i \in Lanes :
      /\ Reflected(x[i]) <=> mask[i] = PosZero
      /\ argument[i] = IF Reflected(x[i]) THEN FSub(copysign(Pi, x[i]), x[i]) ELSE x[i]

\* C25 as stated: on the SSE2 path a finite lane of vector_sin and of
\* vector_cos is the function's polynomial at the argument, reflected or not,
\* with no further change of sign.
C25_ReflectionNoSignChange ==
    (RTM_SSE2_INTRINSICS(backend) /\ op \in {"vector_sin", "vector_cos"}) =>
      \A x \in {SinCosX}, mask \in {SinCosIsLessEqualThanHalfPi}, argument \in {SinCosArgument} :
        \A polynomial \in {SinCosPolynomialAt(argument)} :
          /\ ArgumentIsReflection(x, mask, argument)
          /\ \A i \in Lanes : IsFinite(in0[i]) => out[i] = polynomial[i]

\* C25 amended: a finite lane of vector_sin is the sine polynomial at the
\* argument, reflected or not; a lane of vector_cos is the cosine polynomial
\* at the argument when |x| <= pi/2 and that value with its sign bit set
\* when the lane is reflected.
C25_ReflectionSign ==
    (RTM_SSE2_INTRINSICS(backend) /\ op \in {"vector_sin", "vector_cos"}) =>
      \A x \in {SinCosX}, mask \in {SinCosIsLessEqualThanHalfPi}, argument \in {SinCosArgument} :
        \A polynomial \in {SinCosPolynomialAt(argument)} :
          /\ ArgumentIsReflection(x, mask, argument)
          /\ \A i \in Lanes :
               IsFinite(in0[i]) =>
                 out[i] = IF op = "vector_cos" /\ Reflected(x[i])
                          THEN copysign(polynomial[i], NegZero)
                          ELSE polynomial[i]

\* cos(0, -pi, -pi, 0) on SSE2: the lanes at -pi are reflected to the
\* argument 0, where the polynomial is 1, and come back as -1
C25_Witness ==
    /\ op = "vector_cos"
    /\ backend = "sse2"
    /\ in0 = <<PosZero, FNeg(Pi), FNeg(Pi), PosZero>>
    /\ SinCosReflected(2) /\ ~SinCosReflected(1)
    /\ SinCosArgument[2] = NegZero \/ SinCosArgument[2] = PosZero
    /\ SinCosPolynomial = <<One, One, One, One>>
    /\ out = <<One, NegOne, NegOne, One>>

\* ---------------------------------------------------------------------
\* vector_sign
\* ---------------------------------------------------------------------

vector_greater_equal(b, lhs, rhs) == vector_compare("greater_equal", b, lhs, rhs)

vector_sign(b, input) ==
    IF RTM_SSE2_INTRINSICS(b) THEN
      The({The({The({
        mm_or_ps(sign_bits, one)
        : sign_bits \in {mm_and_ps(input, signs)}})
        : one \in {<<One, One, One, One>>}})
        : signs \in {<<NegZero, NegZero, NegZero, NegZero>>}})
    ELSE The({
        vector_select(b, mask, vector_set1(One), vector_set1(NegOne))
        : mask \in {vector_greater_equal(b, input, vector_zero)}})

\* Lanes: both zeros, ordinary values, the extremes of the finite range,
\* the infinities and NaNs of either sign
SignLanes ==
    {PosZero, NegZero, One, NegOne, Half, FNeg(Half), MinDenormal, FNeg(MinDenormal),
     MaxFloat, FNeg(MaxFloat), PosInf, NegInf, QNaN, FNeg(QNaN)}

Sign ==
    /\ op = "init"
    /\ \E a1 \in SignLanes, a2 \in SignLanes :
         \E input \in {<<a1, a2, a2, a1>>} :
           Call("vector_sign", "none", input, ZeroVec, ZeroVec, PosZero, NoSel,
                vector_sign(backend, input), FALSE)

InitSign ==
    /\ backend \in Backends
    /\ InitRegs
    /\ out = ZeroVec

NextSign == Sign

SpecSign == InitSign /\ [][NextSign]_vars

\* C26: vector_sign returns 1.0 in a lane whose input is >= 0.0 and -1.0
\* otherwise, and for every non-NaN lane, +0 and -0 included, the result is
\* the one the portable path returns.
C26_SignAgrees ==
    op = "vector_sign" =>
      \A portable \in {vector_sign("scalar", in0)} :
        \A i \in Lanes :
          ~IsNaN(in0[i]) =>
            /\ out[i] = IF FGe(in0[i], PosZero) THEN One ELSE NegOne
            /\ out[i] = portable[i]

\* sign(-0, 1, 1, -0) on SSE2: the sign bit of -0 is copied onto 1.0, where
\* -0 >= 0 selects 1.0 on the portable path
C26_Witness ==
    /\ op = "vector_sign"
    /\ backend = "sse2"
    /\ in0 = <<NegZero, One, One, NegZero>>
    /\ out = <<NegOne, One, One, NegOne>>
    /\ vector_sign("scalar", in0) = <<One, One, One, One>>

\* ---------------------------------------------------------------------
\* A store followed by the load of the same width from the same address
\* ---------------------------------------------------------------------

\* The load of n floats through the pointer type v; a uint8_t* destination
\* is read back through a float*
LoadOfWidth(b, v, n, m, p) ==
    IF v = "struct"
    THEN CASE n = 2 -> vector_load2_float2f(b, m, p)
           [] n = 3 -> vector_load3_float3f(b, m, p)
           [] OTHER -> vector_load_float4f(b, m, p)
    ELSE CASE n = 1 -> vector_load1(b, m, p)
           [] n = 2 -> vector_load2(b, m, p)
           [] n = 3 -> vector_load3(b, m, p)
           [] OTHER -> vector_load(b, m, p)

\* The load after a store: in0 keeps the vector stored, mem the buffer the
\* store left
LoadStored ==
    /\ op = "vector_store"
    /\ ptr % SizeofFloat = 0
    /\ CallMem("store_load", variant, count, ptr, in0,
               LoadOfWidth(backend, variant, count, mem, ptr), mem)

NextStoreLoad == Store \/ Store1 \/ Store2 \/ Store3 \/ LoadStored

SpecStoreLoad == InitMem /\ [][NextStoreLoad]_vars

\* C27: the load of N lanes from the address N lanes were stored to returns
\* the first N lanes of the stored vector bit for bit and +0.0 in the
\* remaining lanes, whatever the buffer held before.
C27_StoreLoadRoundTrip ==
    op = "store_load" =>
      \A i \in Lanes :
        out[i] = IF i <= count THEN in0[i] ELSE PosZero

\* store3 then load3 of (Infinity, 1, denormal, all-ones NaN) at offset 4 of
\* a buffer of NaNs on the scalar build
C27_Witness ==
    /\ op = "store_load"
    /\ backend = "scalar"
    /\ variant = "float*"
    /\ count = 3
    /\ ptr = 4
    /\ ReadFloat(mem0, 4, 2) = QNaN
    /\ ReadFloat(mem, 4, 3) = QNaN
    /\ in0 = <<PosInf, One, W(0, 0, 1), AllOnes>>
    /\ out = <<PosInf, One, W(0, 0, 1), PosZero>>

\* ---------------------------------------------------------------------
\* Sequences of vector_set_x / y / z / w on one vector
\* ---------------------------------------------------------------------

\* The vector the sequence starts from
SetOriginal == <<QNaN, NegZero, One, PosInf>>

\* vector_set_x / y / z / w by lane number, float overload
SetLane(b, i, input, lane_value) ==
    CASE i = 1 -> vector_set_x(b, input, lane_value)
      [] i = 2 -> vector_set_y(b, input, lane_value)
      [] i = 3 -> vector_set_z(b, input, lane_value)
      [] i = 4 -> vector_set_w(b, input, lane_value)

\* One set of the sequence, applied to the vector the previous one returned.
\* in2 keeps, per lane, the value of the last set on that lane; the input of
\* the set is the value of out before it.
SetNextX ==
    \E f \in SetVals :
      \E last \in {[in2 EXCEPT ![1] = f]} :
        \/ Call("vector_set_x", "float", ZeroVec, ZeroVec, last, f, NoSel,
                vector_set_x(backend, out, f), FALSE)
        \/ /\ RTM_SSE2_INTRINSICS(backend)
           /\ \E lane_value \in ScalarfRegs(f) :
                Call("vector_set_x", "scalarf", ZeroVec, lane_value, last, f, NoSel,
                     vector_set_x_scalarf(backend, out, lane_value), FALSE)

SetNextY ==
    \E f \in SetVals :
      \E last \in {[in2 EXCEPT ![2] = f]} :
        \/ Call("vector_set_y", "float", ZeroVec, ZeroVec, last, f, NoSel,
                vector_set_y(backend, out, f), FALSE)
        \/ /\ RTM_SSE2_INTRINSICS(backend)
           /\ \E lane_value \in ScalarfRegs(f) :
                Call("vector_set_y", "scalarf", ZeroVec, lane_value, last, f, NoSel,
                     vector_set_y_scalarf(backend, out, lane_value), FALSE)

SetNextZ ==
    \E f \in SetVals :
      \E last \in {[in2 EXCEPT ![3] = f]} :
        \/ Call("vector_set_z", "float", ZeroVec, ZeroVec, last, f, NoSel,
                vector_set_z(backend, out, f), FALSE)
        \/ /\ RTM_SSE2_INTRINSICS(backend)
           /\ \E lane_value \in ScalarfRegs(f) :
                Call("vector_set_z", "scalarf", ZeroVec, lane_value, last, f, NoSel,
                     vector_set_z_scalarf(backend, out, lane_value), FALSE)

SetNextW ==
    \E f \in SetVals :
      \E last \in {[in2 EXCEPT ![4] = f]} :
        \/ Call("vector_set_w", "float", ZeroVec, ZeroVec, last, f, NoSel,
                vector_set_w(backend, out, f), FALSE)
        \/ /\ RTM_SSE2_INTRINSICS(backend)
           /\ \E lane_value \in ScalarfRegs(f) :
                Call("vector_set_w", "scalarf", ZeroVec, lane_value, last, f, NoSel,
                     vector_set_w_scalarf(backend, out, lane_value), FALSE)

InitSetSequence ==
    /\ backend \in Backends
    /\ op = "init"
    /\ variant = "none"
    /\ count = 4
    /\ in0 = ZeroVec
    /\ in1 = ZeroVec
    /\ in2 = SetOriginal
    /\ scalar = PosZero
    /\ sel = NoSel
    /\ flag = FALSE
    /\ mem0 = <<>>
    /\ mem = <<>>
    /\ ptr = 0
    /\ threads = <<>>
    /\ out = SetOriginal

NextSetSequence == SetNextX \/ SetNextY \/ SetNextZ \/ SetNextW

SpecSetSequence == InitSetSequence /\ [][NextSetSequence]_vars

\* C28: after any sequence of vector_set_x / y / z / w each lane holds the
\* value of the last set on that lane, or the original lane if there was
\* none; and from any vector of such a sequence, two sets on different
\* lanes give the same vector in either order, while of two sets on the
\* same lane the later one decides.
C28_SetSequence ==
    /\ out = in2
    /\ \A i \in Lanes, f \in SetVals, g \in SetVals :
         /\ SetLane(backend, i, SetLane(backend, i, out, g), f) = SetLane(backend, i, out, f)
         /\ \A j \in (i + 1)..4 :
              SetLane(backend, i, SetLane(backend, j, out, g), f) =
                SetLane(backend, j, SetLane(backend, i, out, f), g)

\* On SSE2: w := -0, then x := 0 through the scalarf overload; lanes y and z
\* are the original ones
C28_Witness ==
    /\ op = "vector_set_x"
    /\ variant = "scalarf"
    /\ backend = "sse2"
    /\ scalar = PosZero
    /\ in1 = <<PosZero, AllOnes, AllOnes, AllOnes>>
    /\ in2 = <<PosZero, NegZero, One, NegZero>>
    /\ out = <<PosZero, NegZero, One, NegZero>>

\* ---------------------------------------------------------------------
\* The lanes the 2- and 3-component operations do not use
\* ---------------------------------------------------------------------

\* scalar_is_finite(float) (scalar header): std::isfinite
scalar_is_finite(f) == IsFinite(f)

\* is_not_finite of vector_is_finite2 / vector_is_finite3 on SSE2 builds
is_not_finite(input) ==
    The({The({The({The({
      mm_or_ps(is_infinity, is_nan)
      : is_nan \in {mm_cmpneq_ps(input, input)}})
      : is_infinity \in {mm_cmp_ps("equal", abs_input, mm_set_ps1(PosInf))}})
      : abs_input \in {mm_and_ps(input, mm_castsi128_ps(abs_mask))}})
      : abs_mask \in {mm_set_epi32(INT32_7FFFFFFF, INT32_7FFFFFFF, INT32_7FFFFFFF, INT32_7FFFFFFF)}})

vector_is_finite2(b, input) ==
    IF RTM_SSE2_INTRINSICS(b) THEN BitAnd(mm_movemask_ps(is_not_finite(input)), 3, 4) = 0
    ELSE scalar_is_finite(vector_get_x(b, input)) /\ scalar_is_finite(vector_get_y(b, input))

vector_is_finite3(b, input) ==
    IF RTM_SSE2_INTRINSICS(b) THEN BitAnd(mm_movemask_ps(is_not_finite(input)), 7, 4) = 0
    ELSE /\ scalar_is_finite(vector_get_x(b, input))
         /\ scalar_is_finite(vector_get_y(b, input))
         /\ scalar_is_finite(vector_get_z(b, input))

\* Lanes x and y, lane z, and the unused lane w of the inputs
LeadLanes == {PosZero, One, NegOne, Half, MaxFloat, PosInf, QNaN}
SecondLanes == {One, MaxFloat, QNaN}
ThirdLanes == {One, MinDenormal, NegInf}
TrailLanes == {PosZero, IntToFloat(0 - 2), MaxFloat, PosInf, QNaN}
TrailVectors ==
    {<<x, y, z, w>> : x \in LeadLanes, y \in SecondLanes, z \in ThirdLanes, w \in TrailLanes}

\* A fallback no product of vector_mul is equal to: NaNs with a payload of
\* their own
TrailFallback == <<W(0, 255, 5), W(0, 255, 6), W(0, 255, 7), W(0, 255, 8)>>

\* scalar records the float conversion, in2 the scalarf conversion read as
\* a float
Dot3 ==
    /\ op = "init"
    /\ \E lhs \in TrailVectors, w \in {QNaN, IntToFloat(2)} :
         \E rhs \in {<<One, NegOne, Half, w>>} :
           Call("vector_dot3", "none", lhs, rhs,
                vector_set1(scalar_cast(backend, vector_dot3(backend, lhs, rhs))),
                vector_dot3_float(backend, lhs, rhs), NoSel, ZeroVec, FALSE)

LengthSquared3 ==
    /\ op = "init"
    /\ \E input \in TrailVectors :
         Call("vector_length_squared3", "none", input, input,
              vector_set1(scalar_cast(backend, vector_length_squared3(backend, input))),
              vector_dot3_float(backend, input, input), NoSel, ZeroVec, FALSE)

IsFinite2 ==
    /\ op = "init"
    /\ \E input \in TrailVectors :
         Call("vector_is_finite2", "none", input, ZeroVec, ZeroVec, PosZero, NoSel, ZeroVec,
              vector_is_finite2(backend, input))

IsFinite3 ==
    /\ op = "init"
    /\ \E input \in TrailVectors :
         Call("vector_is_finite3", "none", input, ZeroVec, ZeroVec, PosZero, NoSel, ZeroVec,
              vector_is_finite3(backend, input))

\* in2 records the value scalar_sqrt_reciprocal returned (+0.0 when it was
\* not called)
Normalize3OrFallback ==
    /\ op = "init"
    /\ \E input \in TrailVectors, threshold \in {DefaultThreshold, IntToFloat(4)} :
         \E len_sq \in {scalar_cast(backend, vector_length_squared3(backend, input))} :
           \E inv \in (IF FGe(len_sq, threshold)
                       THEN scalar_sqrt_reciprocal_results(len_sq) ELSE {PosZero}) :
             Call("vector_normalize3", "fallback", input, TrailFallback, vector_set1(inv),
                  threshold, NoSel,
                  vector_normalize3(backend, input, TrailFallback, threshold, scalarf_of(backend, inv)),
                  FALSE)

InitTrailing ==
    /\ backend \in Backends
    /\ InitRegs
    /\ out = ZeroVec

NextTrailing == Dot3 \/ LengthSquared3 \/ IsFinite2 \/ IsFinite3 \/ Normalize3OrFallback

SpecTrailing == InitTrailing /\ [][NextTrailing]_vars

\* v with lane w replaced, and with lanes z and w replaced
WithW(v, w) == <<v[1], v[2], v[3], w>>
WithZW(v, z, w) == <<v[1], v[2], z, w>>

\* vector_normalize3 returns the fallback
Normalize3FallsBack(b, input, threshold) ==
    vector_normalize3(b, input, TrailFallback, threshold, scalarf_of(b, One)) = TrailFallback

\* C29: vector_dot3, vector_length_squared3, vector_is_finite3 and the
\* choice of vector_normalize3 between the normalized vector and the
\* fallback return the same whatever lane w of their inputs holds, and
\* vector_is_finite2 whatever lanes z and w hold, on every build.
C29_TrailingLanesUnused ==
    /\ op = "vector_dot3" =>
         \A w \in TrailLanes, u \in TrailLanes :
           /\ vector_dot3_float(backend, WithW(in0, w), WithW(in1, u)) = scalar
           /\ scalar_cast(backend, vector_dot3(backend, WithW(in0, w), WithW(in1, u))) = in2[1]
    /\ op = "vector_length_squared3" =>
         \A w \in TrailLanes :
           /\ vector_dot3_float(backend, WithW(in0, w), WithW(in0, w)) = scalar
           /\ scalar_cast(backend, vector_length_squared3(backend, WithW(in0, w))) = in2[1]
    /\ op = "vector_is_finite3" =>
         \A w \in TrailLanes : vector_is_finite3(backend, WithW(in0, w)) = flag
    /\ op = "vector_is_finite2" =>
         \A z \in TrailLanes, w \in TrailLanes : vector_is_finite2(backend, WithZW(in0, z, w)) = flag
    /\ op = "vector_normalize3" =>
         \A w \in TrailLanes :
           Normalize3FallsBack(backend, WithW(in0, w), scalar) <=> out = TrailFallback

\* dot3 on NEON of vectors whose w lanes are Infinity and NaN: the result
\* is the finite 1*1 + 1*-1 + 1*0.5
C29_Witness ==
    /\ op = "vector_dot3"
    /\ backend = "neon"
    /\ in0 = <<One, One, One, PosInf>>
    /\ in1 = <<One, NegOne, Half, QNaN>>
    /\ scalar = Half
    /\ in2[1] = Half

\* ---------------------------------------------------------------------
\* Algebraic identities of vector_cross3 on exactly representable lanes
\* ---------------------------------------------------------------------

\* What the w lanes of the two operands are replaced by
CrossTrailLanes == {PosZero, PosInf}

\* C30: for operands whose x, y, z lanes are small integers, in lanes x, y,
\* z cross3(a, b) equals -cross3(b, a), cross3(a, a) and cross3(b, b) are
\* zero, dot3(a, cross3(a, b)) and dot3(b, cross3(a, b)) are zero, and none
\* of this depends on the w lanes of a and b.
C30_Cross3Identities ==
    op = "vector_cross3" =>
      /\ \A reversed \in {vector_cross3(backend, in1, in0)} :
           \A i \in 1..3 : FEq(out[i], FNeg(reversed[i]))
      /\ \A i \in 1..3 :
           /\ FEq(vector_cross3(backend, in0, in0)[i], PosZero)
           /\ FEq(vector_cross3(backend, in1, in1)[i], PosZero)
      /\ FEq(vector_dot3_float(backend, in0, out), PosZero)
      /\ FEq(vector_dot3_float(backend, in1, out), PosZero)
      /\ \A w \in CrossTrailLanes :
           \A other \in {vector_cross3(backend, WithW(in0, w), WithW(in1, FNeg(w)))} :
             /\ \A i \in 1..3 : other[i] = out[i]
             /\ FEq(vector_dot3_float(backend, WithW(in0, w), other), PosZero)
             /\ FEq(vector_dot3_float(backend, WithW(in1, FNeg(w)), other), PosZero)

\* cross3((1, -1, 1), (-1, 1, 1)) = (-2, -2, 0) on a NEON build, w lanes
\* NaN and 3
C30_Witness ==
    /\ op = "vector_cross3"
    /\ backend = "neon"
    /\ in0 = <<One, NegOne, One, QNaN>>
    /\ in1 = <<NegOne, One, One, IntToFloat(3)>>
    /\ out[1] = IntToFloat(0 - 2) /\ out[2] = IntToFloat(0 - 2) /\ FEq(out[3], PosZero)
    /\ vector_cross3(backend, in1, in0)[1] = IntToFloat(2)

====
